---------------------------- MODULE Spec2Model ----------------------------
(***************************************************************************)
(* A model of the SNMP polling engine of cacm_backend/core/snmp_poller.     *)
(*                                                                          *)
(* One SNMPPoller instance runs one top-level operation (async_poll,        *)
(* async_poll_system, async_poll_interfaces, async_poll_custom) against an  *)
(* agent.  Every protocol exchange (scalar GET, column WALK) is a           *)
(* suspension point and is modelled by two steps, Issue and Complete; the   *)
(* synchronous code between two suspension points is part of the Complete   *)
(* step that precedes it.                                                   *)
(*                                                                          *)
(* Python strings that the code inspects character by character (OIDs,      *)
(* values handed to int()/float()) are sequences of one-character strings.  *)
(* Python dicts are sequences of <<key, value>> pairs in insertion order.   *)
(***************************************************************************)
EXTENDS Integers, Sequences, FiniteSets, TLC

VARIABLES
    agent,      \* the simulated agent: its answers to GET and WALK
    transport,  \* SNMPPoller._transport: "none" or "created"
    creates,    \* how many times UdpTransportTarget.create succeeded
    clock,      \* time.monotonic(), in whole ticks
    faults,     \* the failures injected so far, in order
    op,         \* the running top-level operation, "idle" before it starts
    request,    \* async_poll_custom's oids argument (a dict name -> oid)
    pc,         \* position of the operation: [sec, col, phase]
    inflight,   \* exchanges issued and not yet completed
    log,        \* exchanges issued so far, in order
    start,      \* the operation's start = time.monotonic()
    result,     \* the operation's PollResult under construction
    frame,      \* locals of the section being assembled
    outcome,    \* "none", "returned" or "raised", and the escaped exception
    previous,   \* the operation the caller ran before this one, and how it ended
    getting     \* per task, where it is in _get_transport and the transport it got

vars == <<agent, transport, creates, clock, faults, op, request, pc,
          inflight, log, start, result, frame, outcome, previous, getting>>

----------------------------------------------------------------------------
(* Python strings as sequences of characters *)

Digits == <<"0", "1", "2", "3", "4", "5", "6", "7", "8", "9">>

IsDigit(c) == \E i \in 1..Len(Digits) : Digits[i] = c

DigitVal(c) == (CHOOSE i \in 1..Len(Digits) : Digits[i] = c) - 1

RECURSIVE NatToChars(_)
NatToChars(n) ==
    IF n < Len(Digits) THEN <<Digits[n + 1]>>
    ELSE NatToChars(n \div Len(Digits)) \o <<Digits[(n % Len(Digits)) + 1]>>

\* str(n) of a Python int
IntToChars(n) == IF n < 0 THEN <<"-">> \o NatToChars(-n) ELSE NatToChars(n)

RECURSIVE DigitsToNat(_)
DigitsToNat(s) ==
    IF s = <<>> THEN 0
    ELSE DigitsToNat(SubSeq(s, 1, Len(s) - 1)) * Len(Digits) + DigitVal(s[Len(s)])

AllDigits(s) == s # <<>> /\ \A i \in 1..Len(s) : IsDigit(s[i])

\* s[n:]
Drop(s, n) == IF n >= Len(s) THEN <<>> ELSE SubSeq(s, n + 1, Len(s))

RECURSIVE LStrip(_, _)
LStrip(s, ch) == IF s # <<>> /\ Head(s) = ch THEN LStrip(Tail(s), ch) ELSE s

RECURSIVE RStrip(_, _)
RStrip(s, ch) ==
    IF s # <<>> /\ s[Len(s)] = ch THEN RStrip(SubSeq(s, 1, Len(s) - 1), ch) ELSE s

StartsWith(s, p) == Len(p) <= Len(s) /\ SubSeq(s, 1, Len(p)) = p

EndsWith(s, p) == Len(p) <= Len(s) /\ SubSeq(s, Len(s) - Len(p) + 1, Len(s)) = p

Contains(s, ch) == \E i \in 1..Len(s) : s[i] = ch

\* a variant that takes the last field: s.split(ch)[-1]
RECURSIVE LastField(_, _)
LastField(s, ch) ==
    IF s = <<>> \/ s[Len(s)] = ch THEN <<>>
    ELSE LastField(SubSeq(s, 1, Len(s) - 1), ch) \o <<s[Len(s)]>>

\* s.split(ch)[0]
RECURSIVE FirstField(_, _)
FirstField(s, ch) ==
    IF s = <<>> \/ Head(s) = ch THEN <<>>
    ELSE <<Head(s)>> \o FirstField(Tail(s), ch)

\* int(s) of a Python str: an optional sign and decimal digits, else ValueError
ParseInt(s) ==
    LET body == IF s # <<>> /\ Head(s) \in {"-", "+"} THEN Tail(s) ELSE s
        neg == s # <<>> /\ Head(s) = "-"
    IN IF AllDigits(body)
       THEN [ok |-> TRUE, n |-> IF neg THEN 0 - DigitsToNat(body) ELSE DigitsToNat(body)]
       ELSE [ok |-> FALSE, n |-> 0]

----------------------------------------------------------------------------
(* Native Python values: int, str, None *)

\* every value carries both fields, so that any two values can be compared
IntV(n) == [k |-> "int", n |-> n, s |-> <<>>]
StrV(s) == [k |-> "str", n |-> 0, s |-> s]
NoneV == [k |-> "none", n |-> 0, s |-> <<>>]

\* Python truthiness
Truthy(v) ==
    CASE v.k = "int" -> v.n # 0
      [] v.k = "str" -> v.s # <<>>
      [] OTHER -> FALSE

\* a or b
Or(a, b) == IF Truthy(a) THEN a ELSE b

\* int(v): [ok, n]; ok = FALSE stands for ValueError / TypeError
PyInt(v) ==
    CASE v.k = "int" -> [ok |-> TRUE, n |-> v.n]
      [] v.k = "str" -> ParseInt(v.s)
      [] OTHER -> [ok |-> FALSE, n |-> 0]

\* str(v)
PyStr(v) ==
    CASE v.k = "int" -> IntToChars(v.n)
      [] v.k = "str" -> v.s
      [] OTHER -> <<"N", "o", "n", "e">>

----------------------------------------------------------------------------
(* Python dicts: sequences of <<key, value>> in insertion order *)

Keys(d) == {d[i][1] : i \in 1..Len(d)}

Has(d, key) == key \in Keys(d)

Get(d, key, default) ==
    IF Has(d, key) THEN d[CHOOSE i \in 1..Len(d) : d[i][1] = key][2] ELSE default

\* d[key] = val
Put(d, key, val) ==
    IF Has(d, key)
    THEN [i \in 1..Len(d) |-> IF d[i][1] = key THEN <<key, val>> ELSE d[i]]
    ELSE Append(d, <<key, val>>)

\* dict(pairs): later bindings of a key overwrite earlier ones
RECURSIVE FromPairs(_)
FromPairs(ps) ==
    IF ps = <<>> THEN <<>>
    ELSE LET p == ps[Len(ps)]
         IN Put(FromPairs(SubSeq(ps, 1, Len(ps) - 1)), p[1], p[2])

\* d.update(e)
RECURSIVE Update(_, _)
Update(d, e) == IF e = <<>> THEN d ELSE Update(Put(d, Head(e)[1], Head(e)[2]), Tail(e))

\* a variant that takes the items in the order of insertion: d.items()
InsertionItems(d) == d

\* sorted(rows.items()) for integer keys
RECURSIVE SortedItems(_)
SortedItems(d) ==
    IF d = <<>> THEN <<>>
    ELSE LET m == CHOOSE i \in 1..Len(d) : \A j \in 1..Len(d) : d[i][1] <= d[j][1]
         IN <<d[m]>> \o SortedItems([i \in 1..(Len(d) - 1) |->
                                       IF i < m THEN d[i] ELSE d[i + 1]])

----------------------------------------------------------------------------
(* oids.py: the fixed identifier tables, each a dict name -> dotted OID *)

RECURSIVE Dotted(_)
Dotted(comps) ==
    IF Len(comps) = 1 THEN NatToChars(comps[1])
    ELSE Dotted(SubSeq(comps, 1, Len(comps) - 1)) \o <<".">> \o NatToChars(comps[Len(comps)])

Mib2 == <<1, 3, 6, 1, 2, 1>>

SYSTEM == <<
    <<"sysDescr",    Dotted(Mib2 \o <<1, 1, 0>>)>>,
    <<"sysObjectID", Dotted(Mib2 \o <<1, 2, 0>>)>>,
    <<"sysUpTime",   Dotted(Mib2 \o <<1, 3, 0>>)>>,
    <<"sysContact",  Dotted(Mib2 \o <<1, 4, 0>>)>>,
    <<"sysName",     Dotted(Mib2 \o <<1, 5, 0>>)>>,
    <<"sysLocation", Dotted(Mib2 \o <<1, 6, 0>>)>>,
    <<"sysServices", Dotted(Mib2 \o <<1, 7, 0>>)>> >>

IF_TABLE == <<
    <<"ifIndex",        Dotted(Mib2 \o <<2, 2, 1, 1>>)>>,
    <<"ifDescr",        Dotted(Mib2 \o <<2, 2, 1, 2>>)>>,
    <<"ifType",         Dotted(Mib2 \o <<2, 2, 1, 3>>)>>,
    <<"ifMtu",          Dotted(Mib2 \o <<2, 2, 1, 4>>)>>,
    <<"ifSpeed",        Dotted(Mib2 \o <<2, 2, 1, 5>>)>>,
    <<"ifPhysAddress",  Dotted(Mib2 \o <<2, 2, 1, 6>>)>>,
    <<"ifAdminStatus",  Dotted(Mib2 \o <<2, 2, 1, 7>>)>>,
    <<"ifOperStatus",   Dotted(Mib2 \o <<2, 2, 1, 8>>)>>,
    <<"ifLastChange",   Dotted(Mib2 \o <<2, 2, 1, 9>>)>>,
    <<"ifInOctets",     Dotted(Mib2 \o <<2, 2, 1, 10>>)>>,
    <<"ifInUcastPkts",  Dotted(Mib2 \o <<2, 2, 1, 11>>)>>,
    <<"ifInDiscards",   Dotted(Mib2 \o <<2, 2, 1, 13>>)>>,
    <<"ifInErrors",     Dotted(Mib2 \o <<2, 2, 1, 14>>)>>,
    <<"ifOutOctets",    Dotted(Mib2 \o <<2, 2, 1, 16>>)>>,
    <<"ifOutUcastPkts", Dotted(Mib2 \o <<2, 2, 1, 17>>)>>,
    <<"ifOutDiscards",  Dotted(Mib2 \o <<2, 2, 1, 19>>)>>,
    <<"ifOutErrors",    Dotted(Mib2 \o <<2, 2, 1, 20>>)>> >>

IF_X_TABLE == <<
    <<"ifName",        Dotted(Mib2 \o <<31, 1, 1, 1, 1>>)>>,
    <<"ifHCInOctets",  Dotted(Mib2 \o <<31, 1, 1, 1, 6>>)>>,
    <<"ifHCOutOctets", Dotted(Mib2 \o <<31, 1, 1, 1, 10>>)>>,
    <<"ifHighSpeed",   Dotted(Mib2 \o <<31, 1, 1, 1, 15>>)>>,
    <<"ifAlias",       Dotted(Mib2 \o <<31, 1, 1, 1, 18>>)>> >>

HR_SYSTEM == <<
    <<"hrSystemUptime",    Dotted(Mib2 \o <<25, 1, 1, 0>>)>>,
    <<"hrSystemNumUsers",  Dotted(Mib2 \o <<25, 1, 5, 0>>)>>,
    <<"hrSystemProcesses", Dotted(Mib2 \o <<25, 1, 6, 0>>)>>,
    <<"hrMemorySize",      Dotted(Mib2 \o <<25, 2, 2, 0>>)>> >>

HR_STORAGE_TABLE == <<
    <<"hrStorageIndex",           Dotted(Mib2 \o <<25, 2, 3, 1, 1>>)>>,
    <<"hrStorageDescr",           Dotted(Mib2 \o <<25, 2, 3, 1, 3>>)>>,
    <<"hrStorageAllocationUnits", Dotted(Mib2 \o <<25, 2, 3, 1, 4>>)>>,
    <<"hrStorageSize",            Dotted(Mib2 \o <<25, 2, 3, 1, 5>>)>>,
    <<"hrStorageUsed",            Dotted(Mib2 \o <<25, 2, 3, 1, 6>>)>> >>

HR_PROCESSOR_TABLE == <<
    <<"hrProcessorLoad", Dotted(Mib2 \o <<25, 3, 3, 1, 2>>)>> >>

ADMIN_STATUS_MAP == <<
    <<1, "up">>, <<2, "down">>, <<3, "testing">> >>

OPER_STATUS_MAP == <<
    <<1, "up">>, <<2, "down">>, <<3, "testing">>, <<4, "unknown">>,
    <<5, "dormant">>, <<6, "notPresent">>, <<7, "lowerLayerDown">> >>

\* dict.values()
Values(d) == [i \in 1..Len(d) |-> d[i][2]]

----------------------------------------------------------------------------
(* models.py: PollStatus and the result records *)

SUCCESS == "success"
PARTIAL == "partial"
ERROR == "error"
TIMEOUT == "timeout"
UNREACHABLE == "unreachable"

PollStatus == {SUCCESS, PARTIAL, ERROR, TIMEOUT, UNREACHABLE}

\* PollResult(host=..., snmp_version=...): the dataclass defaults
NewPollResult(now) ==
    [status |-> SUCCESS, timestamp |-> now, duration_ms |-> 0, error |-> NoneV,
     device |-> NoneV, interfaces |-> <<>>, storage |-> <<>>, cpu |-> <<>>,
     custom |-> <<>>]

\* the arguments of the constructor that every result repeats (lines 79-81)
Host == <<"g", "w">>
Version == "v2c"

\* the fields of InterfaceInfo declared Optional (lines 49-50); the others are
\* built by str() or int() and are never None
OptionalCounters == {"hc_in_octets", "hc_out_octets"}

\* InterfaceInfo.to_dict (lines 52-56): asdict without the keys whose value
\* is None.  A dict is held here as the function from its keys.
InterfaceToDict(iface) ==
    [k \in DOMAIN iface \ {c \in OptionalCounters : iface[c] = NoneV} |-> iface[k]]

\* StorageInfo, CPUInfo and DeviceInfo to_dict (lines 71-72, 83-84, 105-106)
AsDict(rec) == [k \in DOMAIN rec |-> rec[k]]

\* result[key] = value under "if ...:", or nothing
Entry(present, key, value) == IF present THEN key :> value ELSE <<>>

\* a variant of PollResult.to_dict that emits every field, empty or not
ToDictWithPlaceholders(res) ==
    [k \in DOMAIN res \cup {"host", "snmp_version"} |->
        IF k = "host" THEN Host ELSE IF k = "snmp_version" THEN Version ELSE res[k]]

\* PollResult.to_dict (lines 130-151); duration_ms is a whole number of
\* milliseconds here, which round(..., 2) leaves as it is
ToDict(res) ==
    [host |-> Host, status |-> res.status, timestamp |-> res.timestamp,
     duration_ms |-> res.duration_ms, snmp_version |-> Version]
    @@ Entry(Truthy(res.error), "error", res.error)
    @@ Entry(res.device # NoneV, "device", AsDict(res.device))
    @@ Entry(res.interfaces # <<>>, "interfaces",
             [i \in 1..Len(res.interfaces) |-> InterfaceToDict(res.interfaces[i])])
    @@ Entry(res.storage # <<>>, "storage",
             [i \in 1..Len(res.storage) |-> AsDict(res.storage[i])])
    @@ Entry(res.cpu # <<>>, "cpu", [i \in 1..Len(res.cpu) |-> AsDict(res.cpu[i])])
    @@ Entry(res.custom # <<>>, "custom", res.custom)

----------------------------------------------------------------------------
(* Protocol values and SNMPPoller._cast_value *)

IntegerKinds == {"Integer", "Integer32", "Gauge32", "Counter32", "Counter64", "Unsigned32"}

PInt(n) == [type |-> "Integer32", n |-> n, s |-> <<>>]
PGauge(n) == [type |-> "Gauge32", n |-> n, s |-> <<>>]
PCounter(n) == [type |-> "Counter32", n |-> n, s |-> <<>>]
PCounter64(n) == [type |-> "Counter64", n |-> n, s |-> <<>>]
PTicks(n) == [type |-> "TimeTicks", n |-> n, s |-> <<>>]
POctets(s) == [type |-> "OctetString", n |-> 0, s |-> s]
POid(s) == [type |-> "ObjectIdentifier", n |-> 0, s |-> s]
\* the exception value a v2c agent binds to an object it does not implement;
\* s is its prettyPrint() text, held as one opaque fragment
PNoSuchObject ==
    [type |-> "NoSuchObject", n |-> 0, s |-> <<"No Such Object currently exists at this OID">>]

\* n is the number of an integer kind; s is the text that prettyPrint() or
\* str() renders of any other kind
CastValue(value) ==
    IF value.type \in IntegerKinds THEN IntV(value.n)
    ELSE IF value.type = "OctetString" THEN StrV(value.s)
    ELSE IF value.type = "ObjectIdentifier" THEN StrV(value.s)
    ELSE IF value.type = "TimeTicks" THEN IntV(value.n)
    ELSE IF value.type = "IpAddress" THEN StrV(value.s)
    ELSE StrV(value.s)

----------------------------------------------------------------------------
(* Exceptions: [type, msg]; msg is str(exc) as a sequence of fragments *)

NoExc == [type |-> "none", msg |-> <<>>]

SNMPError(msg) == [type |-> "SNMPError", msg |-> msg]

Raised(type, msg) == [type |-> type, msg |-> msg]

IsExc(e) == e.type # "none"

ValueErrorInt(v) ==
    Raised("ValueError",
           <<"invalid literal for int() with base 10: ", "'">> \o PyStr(v) \o <<"'">>)

ValueErrorFloat(v) ==
    Raised("ValueError", <<"could not convert string to float: ", "'">> \o PyStr(v) \o <<"'">>)

\* the error indication of get_cmd / walk_cmd when no response arrives
TimedOut == "No SNMP response received before timeout"

\* a computation's result: the value, or the exception it raised
Ok(val) == [exc |-> NoExc, val |-> val]
Fail(e) == [exc |-> e, val |-> NoneV]

----------------------------------------------------------------------------
(* SNMPPoller._get: the reply of get_cmd turned into a dict or an exception *)

\* A reply of get_cmd: [kind, ind, status, idx, binds]; kind "raise" is an
\* exception raised by the transport instead of a reply (then exc is set).
GetResult(reply) ==
    CASE reply.kind = "raise" -> Fail(reply.exc)
      [] reply.kind = "errInd" -> Fail(SNMPError(<<"SNMP GET error: ", reply.ind>>))
      [] reply.kind = "errStatus" ->
            IF reply.idx = 0
            THEN Fail(SNMPError(<<"SNMP GET error: ", reply.status, " at ", "?">>))
            ELSE IF reply.idx > Len(reply.binds)
            THEN Fail(Raised("IndexError", <<"tuple index out of range">>))
            ELSE Fail(SNMPError(<<"SNMP GET error: ", reply.status, " at ">>
                                \o reply.binds[reply.idx][1]))
      [] OTHER ->
            Ok(FromPairs([i \in 1..Len(reply.binds) |->
                            <<reply.binds[i][1], CastValue(reply.binds[i][2])>>]))

\* a variant of _walk that raises on an error indication or an error
\* status, as _get does
WalkResultStrict(reply) ==
    CASE reply.kind = "raise" -> Fail(reply.exc)
      [] reply.kind = "errInd" -> Fail(SNMPError(<<"SNMP WALK error: ", reply.ind>>))
      [] reply.kind = "errStatus" -> Fail(SNMPError(<<"SNMP WALK error: ", reply.status>>))
      [] OTHER -> Ok([i \in 1..Len(reply.binds) |->
                        <<reply.binds[i][1], CastValue(reply.binds[i][2])>>])

(* SNMPPoller._walk: the entries received before the walk ended or broke off *)
WalkResult(reply) ==
    IF reply.kind = "raise" THEN Fail(reply.exc)
    ELSE Ok([i \in 1..Len(reply.binds) |->
               <<reply.binds[i][1], CastValue(reply.binds[i][2])>>])

\* a variant of the pivot in which an entry replaces the row of its index
RECURSIVE PivotReplacing(_, _, _, _)
PivotReplacing(table, col_name, base_oid, walked) ==
    IF walked = <<>> THEN table
    ELSE LET full_oid == Head(walked)[1]
             value == Head(walked)[2]
             suffix == LStrip(Drop(full_oid, Len(base_oid)), ".")
             idx == ParseInt(FirstField(suffix, "."))
             next == IF idx.ok THEN Put(table, idx.n, Put(<<>>, col_name, value))
                     ELSE table
         IN PivotReplacing(next, col_name, base_oid, Tail(walked))

(* SNMPPoller._walk_table, one column: pivot the walked entries into table *)
RECURSIVE Pivot(_, _, _, _)
Pivot(table, col_name, base_oid, walked) ==
    IF walked = <<>> THEN table
    ELSE LET full_oid == Head(walked)[1]
             value == Head(walked)[2]
             suffix == LStrip(Drop(full_oid, Len(base_oid)), ".")
             idx == ParseInt(FirstField(suffix, "."))
             next == IF idx.ok
                     THEN Put(table, idx.n, Put(Get(table, idx.n, <<>>), col_name, value))
                     ELSE table
         IN Pivot(next, col_name, base_oid, Tail(walked))

----------------------------------------------------------------------------
(* SNMPPoller._poll_system_info *)

\* a variant that takes the i-th value of the response for the i-th name
PositionalLookup(data, table) ==
    [i \in 1..(IF Len(data) < Len(table) THEN Len(data) ELSE Len(table)) |->
        <<table[i][1], data[i][2]>>]

\* the lookup loop: each returned oid is matched by suffix against the table
RECURSIVE SuffixLookup(_, _)
SuffixLookup(data, table) ==
    IF data = <<>> THEN <<>>
    ELSE LET rest == SuffixLookup(SubSeq(data, 1, Len(data) - 1), table)
             item == data[Len(data)]
             hits == {j \in 1..Len(table) :
                        EndsWith(RStrip(item[1], "."), RStrip(table[j][2], "."))}
         IN IF hits = {} THEN rest
            ELSE Put(rest, table[CHOOSE j \in hits : \A h \in hits : j <= h][1], item[2])

RECURSIVE Join(_, _)
Join(parts, sep) ==
    IF parts = <<>> THEN <<>>
    ELSE IF Len(parts) = 1 THEN parts[1]
    ELSE parts[1] \o <<sep>> \o Join(Tail(parts), sep)

SecondsPerDay == 86400
SecondsPerHour == 3600
SecondsPerMinute == 60
TicksPerSecond == 100

FormatUptime(ticks) ==
    LET total_seconds == ticks \div TicksPerSecond
        days == total_seconds \div SecondsPerDay
        rem1 == total_seconds % SecondsPerDay
        hours == rem1 \div SecondsPerHour
        rem2 == rem1 % SecondsPerHour
        minutes == rem2 \div SecondsPerMinute
        seconds == rem2 % SecondsPerMinute
        parts == (IF days # 0 THEN <<IntToChars(days) \o <<"d">>>> ELSE <<>>)
                 \o (IF hours # 0 THEN <<IntToChars(hours) \o <<"h">>>> ELSE <<>>)
                 \o (IF minutes # 0 THEN <<IntToChars(minutes) \o <<"m">>>> ELSE <<>>)
                 \o <<IntToChars(seconds) \o <<"s">>>>
    IN Join(parts, " ")

\* lines 314-331: the system-group lookup and the DeviceInfo constructor
BuildDevice(data) ==
    LET lookup == SuffixLookup(data, SYSTEM)
        uptime_ticks == Get(lookup, "sysUpTime", IntV(0))
        ticks == IF Truthy(uptime_ticks) THEN PyInt(uptime_ticks) ELSE [ok |-> TRUE, n |-> 0]
        services_arg == Or(Get(lookup, "sysServices", IntV(0)), IntV(0))
        services == PyInt(services_arg)
    IN IF ~ticks.ok THEN Fail(ValueErrorInt(uptime_ticks))
       ELSE IF ~services.ok THEN Fail(ValueErrorInt(services_arg))
       ELSE Ok([sys_name |-> PyStr(Get(lookup, "sysName", StrV(<<>>))),
                sys_descr |-> PyStr(Get(lookup, "sysDescr", StrV(<<>>))),
                sys_object_id |-> PyStr(Get(lookup, "sysObjectID", StrV(<<>>))),
                sys_uptime_ticks |-> ticks.n,
                sys_uptime_human |-> FormatUptime(ticks.n),
                sys_contact |-> PyStr(Get(lookup, "sysContact", StrV(<<>>))),
                sys_location |-> PyStr(Get(lookup, "sysLocation", StrV(<<>>))),
                sys_services |-> services.n,
                memory_total_kb |-> 0,
                num_users |-> 0,
                num_processes |-> 0])

\* int(d.get(key, 0) or 0): its argument and its result
IntArg(d, key) == Or(Get(d, key, IntV(0)), IntV(0))
IntField(d, key) == PyInt(IntArg(d, key))

\* lines 333-345: the best-effort host-resource scalars; got is _get's result.
\* Any exception, of the GET or of an int(), leaves the later fields alone.
ApplyHostResources(device, got) ==
    IF IsExc(got.exc) THEN device
    ELSE LET hr_lookup == SuffixLookup(got.val, HR_SYSTEM)
             mem == IntField(hr_lookup, "hrMemorySize")
             users == IntField(hr_lookup, "hrSystemNumUsers")
             procs == IntField(hr_lookup, "hrSystemProcesses")
             d1 == [device EXCEPT !.memory_total_kb = mem.n]
             d2 == [d1 EXCEPT !.num_users = users.n]
             d3 == [d2 EXCEPT !.num_processes = procs.n]
         IN IF ~mem.ok THEN device
            ELSE IF ~users.ok THEN d1
            ELSE IF ~procs.ok THEN d2
            ELSE d3

----------------------------------------------------------------------------
(* SNMPPoller._poll_interfaces *)

\* a variant of the merge that skips the rows ifTable does not have
RECURSIVE MergeRowsKnownOnly(_, _)
MergeRowsKnownOnly(rows, x_rows) ==
    IF x_rows = <<>> THEN rows
    ELSE LET idx == Head(x_rows)[1]
             x_data == Head(x_rows)[2]
             merged == IF Has(rows, idx)
                       THEN Put(rows, idx, Update(Get(rows, idx, <<>>), x_data))
                       ELSE rows
         IN MergeRowsKnownOnly(merged, Tail(x_rows))

\* lines 355-359: merge the ifXTable rows into the ifTable rows
RECURSIVE MergeRows(_, _)
MergeRows(rows, x_rows) ==
    IF x_rows = <<>> THEN rows
    ELSE LET idx == Head(x_rows)[1]
             x_data == Head(x_rows)[2]
             merged == IF Has(rows, idx)
                       THEN Put(rows, idx, Update(Get(rows, idx, <<>>), x_data))
                       ELSE Put(rows, idx, x_data)
         IN MergeRows(merged, Tail(x_rows))

Million == 1000000

\* lines 365-369.  A float is held as the integer 10^6 times its value, so
\* speed_mbps = 100.0 is 100000000; float(s) of a str is taken on the strings
\* int(s) accepts.
SpeedMbps(r) ==
    LET high == Get(r, "ifHighSpeed", NoneV)
        speed_raw == Or(high, Get(r, "ifSpeed", IntV(0)))
        f == PyInt(speed_raw)
    IN IF Truthy(high)
       THEN IF f.ok THEN Ok(f.n * Million) ELSE Fail(ValueErrorFloat(speed_raw))
       ELSE IF Truthy(speed_raw)
            THEN IF f.ok THEN Ok(f.n) ELSE Fail(ValueErrorFloat(speed_raw))
            ELSE Ok(0)

HexChars == <<"0", "1", "2", "3", "4", "5", "6", "7", "8", "9",
              "a", "b", "c", "d", "e", "f">>
UpperHex == <<"A", "B", "C", "D", "E", "F">>

IsHex(c) == (\E i \in 1..Len(HexChars) : HexChars[i] = c)
            \/ (\E i \in 1..Len(UpperHex) : UpperHex[i] = c)

LowerHex(c) ==
    IF \E i \in 1..Len(UpperHex) : UpperHex[i] = c
    THEN HexChars[Len(Digits) + (CHOOSE i \in 1..Len(UpperHex) : UpperHex[i] = c)]
    ELSE c

\* mac.replace("0x", "")
RECURSIVE Remove0x(_)
Remove0x(s) ==
    IF s = <<>> THEN <<>>
    ELSE IF StartsWith(s, <<"0", "x">>) THEN Remove0x(Drop(s, 2))
    ELSE <<Head(s)>> \o Remove0x(Tail(s))

\* ":".join(f"{b:02x}" for b in bytes.fromhex(h)), for h of hex digit pairs
RECURSIVE HexPairs(_)
HexPairs(h) ==
    IF h = <<>> THEN <<>>
    ELSE <<<<LowerHex(h[1]), LowerHex(h[2])>>>> \o HexPairs(Tail(Tail(h)))

\* lines 371-376: TypeError when the value is a nonzero int ("c in mac")
MacAddress(r) ==
    LET mac == Get(r, "ifPhysAddress", StrV(<<>>))
    IN IF ~Truthy(mac) THEN Ok(mac)
       ELSE IF mac.k # "str"
       THEN Fail(Raised("TypeError", <<"argument of type 'int' is not iterable">>))
       ELSE IF Contains(mac.s, ":") \/ Contains(mac.s, ".") THEN Ok(mac)
       ELSE LET h == Remove0x(mac.s)
            IN IF (\A i \in 1..Len(h) : IsHex(h[i])) /\ Len(h) % 2 = 0
               THEN Ok(StrV(Join(HexPairs(h), ":")))
               ELSE Ok(mac)

\* a variant that looks every code up in the operational map
StatusLabelOper(map, code) == Get(OPER_STATUS_MAP, code, "unknown")

\* MAP.get(code, "unknown")
StatusLabel(map, code) == Get(map, code, "unknown")

IfIntColumns == <<"ifType", "ifMtu", "ifAdminStatus", "ifOperStatus", "ifLastChange",
                  "ifInOctets", "ifInUcastPkts", "ifInDiscards", "ifInErrors",
                  "ifOutOctets", "ifOutUcastPkts", "ifOutDiscards", "ifOutErrors">>

\* int(r[key]) if key in r else None
OptInt(r, key) ==
    IF ~Has(r, key) THEN Ok(NoneV)
    ELSE LET n == PyInt(Get(r, key, NoneV))
         IN IF n.ok THEN Ok(IntV(n.n)) ELSE Fail(ValueErrorInt(Get(r, key, NoneV)))

\* the InterfaceInfo constructor (lines 378-400); n holds int(r.get(c, 0) or 0)
\* of every integer column c
InterfaceInfo(idx, r, n, speed_mbps, mac, hc_in_octets, hc_out_octets) ==
    [index |-> idx,
     name |-> PyStr(Get(r, "ifName", Get(r, "ifDescr", StrV(<<"i", "f">> \o IntToChars(idx))))),
     description |-> PyStr(Get(r, "ifDescr", StrV(<<>>))),
     alias |-> PyStr(Get(r, "ifAlias", StrV(<<>>))),
     type |-> n["ifType"].n,
     mtu |-> n["ifMtu"].n,
     speed_mbps |-> speed_mbps,
     mac_address |-> PyStr(mac),
     admin_status |-> StatusLabel(ADMIN_STATUS_MAP, n["ifAdminStatus"].n),
     oper_status |-> StatusLabel(OPER_STATUS_MAP, n["ifOperStatus"].n),
     last_change |-> n["ifLastChange"].n,
     in_octets |-> n["ifInOctets"].n,
     in_unicast_packets |-> n["ifInUcastPkts"].n,
     in_discards |-> n["ifInDiscards"].n,
     in_errors |-> n["ifInErrors"].n,
     out_octets |-> n["ifOutOctets"].n,
     out_unicast_packets |-> n["ifOutUcastPkts"].n,
     out_discards |-> n["ifOutDiscards"].n,
     out_errors |-> n["ifOutErrors"].n,
     hc_in_octets |-> hc_in_octets,
     hc_out_octets |-> hc_out_octets]

\* the first exception among the parts of a row, in the order the code
\* evaluates them, or the record
FirstFailure(speed, mac, r, n, hc_in, hc_out, record) ==
    LET bad == {i \in 1..Len(IfIntColumns) : ~n[IfIntColumns[i]].ok}
    IN IF IsExc(speed.exc) THEN Fail(speed.exc)
       ELSE IF IsExc(mac.exc) THEN Fail(mac.exc)
       ELSE IF bad # {}
       THEN Fail(ValueErrorInt(IntArg(r, IfIntColumns[CHOOSE i \in bad : \A j \in bad : i <= j])))
       ELSE IF IsExc(hc_in.exc) THEN Fail(hc_in.exc)
       ELSE IF IsExc(hc_out.exc) THEN Fail(hc_out.exc)
       ELSE Ok(record)

IntFields(r, cols) == [c \in {cols[i] : i \in 1..Len(cols)} |-> IntField(r, c)]

InterfaceOf(idx, r, n, speed, mac, hc_in, hc_out) ==
    FirstFailure(speed, mac, r, n, hc_in, hc_out,
                 InterfaceInfo(idx, r, n, speed.val, mac.val, hc_in.val, hc_out.val))

\* lines 365-400: one InterfaceInfo, or the first exception of its fields
BuildInterface(idx, r) ==
    InterfaceOf(idx, r, IntFields(r, IfIntColumns), SpeedMbps(r), MacAddress(r),
                OptInt(r, "ifHCInOctets"), OptInt(r, "ifHCOutOctets"))

----------------------------------------------------------------------------
(* SNMPPoller._poll_storage and _poll_cpu *)

Hundred == 100

RECURSIVE GCD(_, _)
GCD(a, b) == IF b = 0 THEN a ELSE GCD(b, a % b)

\* a variant that cuts the percentage off after two decimals
PercentUsedTruncated(used_bytes, total_bytes) ==
    IF total_bytes > 0
    THEN LET g == GCD(total_bytes, used_bytes)
         IN ((used_bytes \div g) * Hundred * Hundred) \div (total_bytes \div g)
    ELSE 0

\* round(used_bytes / total_bytes * 100, 2), held as the integer 100 times its
\* value; a tie is rounded to even.  The fraction is reduced first, to keep
\* the products small.
PercentUsed(used_bytes, total_bytes) ==
    IF total_bytes > 0
    THEN LET g == GCD(total_bytes, used_bytes)
             scaled == (used_bytes \div g) * Hundred * Hundred
             den == total_bytes \div g
             q == scaled \div den
             rem == scaled % den
         IN IF 2 * rem > den THEN q + 1
            ELSE IF 2 * rem = den THEN q + (q % 2)
            ELSE q
    ELSE 0

\* lines 415-429
BuildStorage(idx, r) ==
    LET alloc == IntField(r, "hrStorageAllocationUnits")
        size == IntField(r, "hrStorageSize")
        used == IntField(r, "hrStorageUsed")
        total_bytes == size.n * alloc.n
        used_bytes == used.n * alloc.n
    IN IF ~alloc.ok THEN Fail(ValueErrorInt(IntArg(r, "hrStorageAllocationUnits")))
       ELSE IF ~size.ok THEN Fail(ValueErrorInt(IntArg(r, "hrStorageSize")))
       ELSE IF ~used.ok THEN Fail(ValueErrorInt(IntArg(r, "hrStorageUsed")))
       ELSE Ok([index |-> idx,
                description |-> PyStr(Get(r, "hrStorageDescr", StrV(<<>>))),
                allocation_units |-> alloc.n,
                total_bytes |-> total_bytes,
                used_bytes |-> used_bytes,
                percent_used |-> PercentUsed(used_bytes, total_bytes)])

\* line 441
BuildCPU(idx, r) ==
    LET load == IntField(r, "hrProcessorLoad")
    IN IF ~load.ok THEN Fail(ValueErrorInt(IntArg(r, "hrProcessorLoad")))
       ELSE Ok([index |-> idx, load_percent |-> load.n])

\* the loop over sorted(rows.items()) of an assembler: the list of its
\* records, or the first exception a row raises
Cons(one, rest) ==
    IF IsExc(one.exc) THEN Fail(one.exc)
    ELSE IF IsExc(rest.exc) THEN Fail(rest.exc)
    ELSE Ok(<<one.val>> \o rest.val)

BuildRow(kind, idx, r) ==
    CASE kind = "interface" -> BuildInterface(idx, r)
      [] kind = "storage" -> BuildStorage(idx, r)
      [] OTHER -> BuildCPU(idx, r)

RECURSIVE BuildList(_, _)
BuildList(items, kind) ==
    IF items = <<>> THEN Ok(<<>>)
    ELSE Cons(BuildRow(kind, Head(items)[1], Head(items)[2]), BuildList(Tail(items), kind))

\* lines 363-403
BuildInterfaces(rows) == BuildList(SortedItems(rows), "interface")

\* lines 413-430
BuildStorageList(rows) == BuildList(SortedItems(rows), "storage")

\* lines 440-443
BuildCPUList(rows) == BuildList(SortedItems(rows), "cpu")

----------------------------------------------------------------------------
(* SNMPPoller.async_poll_custom, lines 274-282 *)

\* oid_to_name = {v: k for k, v in oids.items()}
OidToName(oids) == FromPairs([i \in 1..Len(oids) |-> <<oids[i][2], oids[i][1]>>])

\* a variant of the inner loop that matches a returned oid by equality only
CustomKeyExact(oid_str, oid_to_name) ==
    LET clean == LStrip(oid_str, ".")
        hits == {j \in 1..Len(oid_to_name) : clean = LStrip(oid_to_name[j][1], ".")}
    IN IF hits = {} THEN oid_str
       ELSE oid_to_name[CHOOSE j \in hits : \A h \in hits : j <= h][2]

\* the inner for/else: the key under which a returned oid is stored
CustomKey(oid_str, oid_to_name) ==
    LET clean == LStrip(oid_str, ".")
        hits == {j \in 1..Len(oid_to_name) :
                   \/ clean = LStrip(oid_to_name[j][1], ".")
                   \/ StartsWith(clean, LStrip(oid_to_name[j][1], "."))}
    IN IF hits = {} THEN oid_str
       ELSE oid_to_name[CHOOSE j \in hits : \A h \in hits : j <= h][2]

\* the outer loop over values.items()
RECURSIVE Reassociate(_, _, _)
Reassociate(custom, values, oid_to_name) ==
    IF values = <<>> THEN custom
    ELSE Reassociate(Put(custom, CustomKey(Head(values)[1], oid_to_name), Head(values)[2]),
                     Tail(values), oid_to_name)

----------------------------------------------------------------------------
(* The top-level operations as a sequence of stages.  A stage is one        *)
(* _get call or one _walk_table call; a walk stage has one exchange per     *)
(* column.                                                                  *)

POLL == "async_poll"
POLL_SYSTEM == "async_poll_system"
POLL_INTERFACES == "async_poll_interfaces"
POLL_CUSTOM == "async_poll_custom"

Operations == {POLL, POLL_SYSTEM, POLL_INTERFACES, POLL_CUSTOM}

WalkStages == {"if", "ifx", "storage", "cpu"}

StageTable(stage) ==
    CASE stage = "if" -> IF_TABLE
      [] stage = "ifx" -> IF_X_TABLE
      [] stage = "storage" -> HR_STORAGE_TABLE
      [] stage = "cpu" -> HR_PROCESSOR_TABLE

\* the section of the result a stage belongs to
SectionOf(stage) ==
    CASE stage \in {"system", "hr"} -> "device"
      [] stage \in {"if", "ifx"} -> "interfaces"
      [] stage = "storage" -> "storage"
      [] stage = "cpu" -> "cpu"
      [] OTHER -> "custom"

\* the first stage of an operation
FirstStage(opk) ==
    CASE opk = POLL -> "system"
      [] opk = POLL_SYSTEM -> "system"
      [] opk = POLL_INTERFACES -> "if"
      [] OTHER -> "custom"

\* a variant of the try block with lines 226 and 227 exchanged
NextSectionSwapped(opk, section) ==
    IF opk = POLL
    THEN CASE section = "device" -> "storage"
           [] section = "storage" -> "interfaces"
           [] section = "interfaces" -> "cpu"
           [] OTHER -> "end"
    ELSE "end"

\* a variant in which every operation runs on through the sections of the
\* full poll
NextSectionThrough(opk, section) ==
    CASE section = "device" -> "interfaces"
      [] section = "interfaces" -> "storage"
      [] section = "storage" -> "cpu"
      [] OTHER -> "end"

\* the section that follows a completed section in the operation's try
\* block, "end" after the last one (lines 225-229, 247-248, 260-261)
NextSection(opk, section) ==
    IF opk = POLL
    THEN CASE section = "device" -> "interfaces"
           [] section = "interfaces" -> "storage"
           [] section = "storage" -> "cpu"
           [] OTHER -> "end"
    ELSE "end"

SectionStart(section) ==
    CASE section = "device" -> "system"
      [] section = "interfaces" -> "if"
      [] section = "storage" -> "storage"
      [] section = "cpu" -> "cpu"
      [] OTHER -> "custom"

\* device: the DeviceInfo built by the first GET; rows: the ifTable rows;
\* table: the table _walk_table is filling; values: the dict _get returned
\* to async_poll_custom
NewFrame == [device |-> NoneV, rows |-> <<>>, table |-> <<>>, values |-> <<>>]

\* what the synchronous code does after an exchange
Goto(res, frm, stage, col) ==
    [result |-> res, frame |-> frm, stage |-> stage, col |-> col, exc |-> NoExc, end |-> FALSE]
Throw(res, frm, e) ==
    [result |-> res, frame |-> frm, stage |-> "done", col |-> 0, exc |-> e, end |-> TRUE]

\* a section returned its value: the assignment result.<section> = value,
\* then the next section or the end of the try block
SectionDone(opk, res, section, value) ==
    LET r == CASE section = "device" -> [res EXCEPT !.device = value]
               [] section = "interfaces" -> [res EXCEPT !.interfaces = value]
               [] section = "storage" -> [res EXCEPT !.storage = value]
               [] section = "cpu" -> [res EXCEPT !.cpu = value]
               [] OTHER -> [res EXCEPT !.custom = value]
        nxt == NextSection(opk, section)
    IN IF nxt = "end"
       THEN [result |-> [r EXCEPT !.status = SUCCESS], frame |-> NewFrame,
             stage |-> "done", col |-> 0, exc |-> NoExc, end |-> TRUE]
       ELSE Goto(r, NewFrame, SectionStart(nxt), 1)

\* the tail of a section assembler: built is its list, or its exception
Assembled(opk, res, frm, section, built) ==
    IF IsExc(built.exc) THEN Throw(res, frm, built.exc)
    ELSE SectionDone(opk, res, section, built.val)

\* _poll_system_info after its first GET (lines 312-331)
DeviceBuilt(res, frm, dev) ==
    IF IsExc(dev.exc) THEN Throw(res, frm, dev.exc)
    ELSE Goto(res, [frm EXCEPT !.device = dev.val], "hr", 1)

\* a variant that treats a failed first GET as an empty response
AfterSystemLenient(opk, res, frm, got) ==
    DeviceBuilt(res, frm, BuildDevice(IF IsExc(got.exc) THEN <<>> ELSE got.val))

AfterSystem(opk, res, frm, got) ==
    IF IsExc(got.exc) THEN Throw(res, frm, got.exc)
    ELSE DeviceBuilt(res, frm, BuildDevice(got.val))

\* a variant of the second GET without the try/except around it
AfterHostResourcesStrict(opk, res, frm, got) ==
    IF IsExc(got.exc) THEN Throw(res, frm, got.exc)
    ELSE SectionDone(opk, res, "device", ApplyHostResources(frm.device, got))

\* _poll_system_info after its second GET (lines 333-347)
AfterHostResources(opk, res, frm, got) ==
    SectionDone(opk, res, "device", ApplyHostResources(frm.device, got))

\* a table is complete (or, for the three best-effort tables, given up)
TableDone(opk, res, frm, stage, table, failed) ==
    CASE stage = "if" -> Goto(res, [frm EXCEPT !.rows = table, !.table = <<>>], "ifx", 1)
      [] stage = "ifx" ->
            Assembled(opk, res, frm, "interfaces",
                      BuildInterfaces(IF failed THEN frm.rows ELSE MergeRows(frm.rows, table)))
      [] stage = "storage" ->
            IF failed THEN SectionDone(opk, res, "storage", <<>>)
            ELSE Assembled(opk, res, frm, "storage", BuildStorageList(table))
      [] OTHER ->
            IF failed THEN SectionDone(opk, res, "cpu", <<>>)
            ELSE Assembled(opk, res, frm, "cpu", BuildCPUList(table))

\* whether the stage's _walk_table call sits in a try/except Exception
\* (lines 353-361, 407-411, 434-438)
BestEffort(stage) == stage \in {"ifx", "storage", "cpu"}

\* _walk_table after the walk of column col (lines 182-191) and then its caller
WalkedInto(opk, res, frm, stage, col, got, table) ==
    IF IsExc(got.exc) /\ ~BestEffort(stage) THEN Throw(res, frm, got.exc)
    ELSE IF ~IsExc(got.exc) /\ col < Len(StageTable(stage))
    THEN Goto(res, [frm EXCEPT !.table = table], stage, col + 1)
    ELSE TableDone(opk, res, frm, stage, table, IsExc(got.exc))

AfterWalk(opk, res, frm, stage, col, got) ==
    WalkedInto(opk, res, frm, stage, col, got,
               IF IsExc(got.exc) THEN <<>>
               ELSE Pivot(frm.table, StageTable(stage)[col][1], StageTable(stage)[col][2],
                          got.val))

\* async_poll_custom after its GET (lines 273-283)
AfterCustom(opk, res, frm, oids, got) ==
    IF IsExc(got.exc) THEN Throw(res, frm, got.exc)
    ELSE [SectionDone(opk, res, "custom", Reassociate(res.custom, got.val, OidToName(oids)))
            EXCEPT !.frame = [frm EXCEPT !.values = got.val]]

After(opk, res, frm, oids, stage, col, got) ==
    CASE stage = "system" -> AfterSystem(opk, res, frm, got)
      [] stage = "hr" -> AfterHostResources(opk, res, frm, got)
      [] stage = "custom" -> AfterCustom(opk, res, frm, oids, got)
      [] OTHER -> AfterWalk(opk, res, frm, stage, col, got)

----------------------------------------------------------------------------
(* The except clauses and the tail of a top-level operation *)

\* a variant of the SNMPError clause that records no message
OnSNMPErrorSilent(res, exc) == [res EXCEPT !.status = ERROR]

\* a variant of the SNMPError clause that reports a timeout as its own status
OnSNMPErrorAsTimeout(res, exc) ==
    [res EXCEPT !.status = IF \E i \in 1..Len(exc.msg) : exc.msg[i] = TimedOut
                           THEN TIMEOUT ELSE ERROR,
                !.error = StrV(exc.msg)]

\* except SNMPError as exc (lines 230-232, 249-251, 262-264, 284-286)
OnSNMPError(res, exc) == [res EXCEPT !.status = ERROR, !.error = StrV(exc.msg)]

\* a variant of the Exception clause that answers with a fresh result
OnExceptionFresh(res, exc) ==
    [NewPollResult(res.timestamp)
        EXCEPT !.status = ERROR, !.error = StrV(<<"Unexpected error: ">> \o exc.msg)]

\* except Exception as exc (lines 234-236)
OnException(res, exc) ==
    [res EXCEPT !.status = ERROR, !.error = StrV(<<"Unexpected error: ">> \o exc.msg)]

\* whether the operation has an except clause for the exception
Catches(opk, exc) == exc.type = "SNMPError" \/ opk = POLL

MsPerSecond == 1000

\* result.duration_ms = (time.monotonic() - start) * 1000
WithDuration(res, now, started) == [res EXCEPT !.duration_ms = (now - started) * MsPerSecond]

\* outcome: how the operation ended, the exception that ended its try block
\* (NoExc when none did) and the stage whose code raised it
NotFinished == [kind |-> "none", exc |-> NoExc, at |-> "none"]

\* the operation ends: it returns its result, or the exception escapes
Returned(res, exc, at) ==
    [result |-> res, outcome |-> [kind |-> "returned", exc |-> exc, at |-> at]]

Finish(opk, res, exc, at, now, started) ==
    IF ~IsExc(exc) THEN Returned(WithDuration(res, now, started), NoExc, "none")
    ELSE IF ~Catches(opk, exc)
    THEN [result |-> res, outcome |-> [kind |-> "raised", exc |-> exc, at |-> at]]
    ELSE IF exc.type = "SNMPError"
    THEN Returned(WithDuration(OnSNMPError(res, exc), now, started), exc, at)
    ELSE Returned(WithDuration(OnException(res, exc), now, started), exc, at)

----------------------------------------------------------------------------
(* The simulated agents and the replies of the transport *)

OkReply(binds) ==
    [kind |-> "ok", ind |-> "", status |-> "", idx |-> 0, binds |-> binds, exc |-> NoExc]
ErrStatusReply(status, idx, binds) ==
    [kind |-> "errStatus", ind |-> "", status |-> status, idx |-> idx, binds |-> binds,
     exc |-> NoExc]
ErrIndReply(ind, binds) ==
    [kind |-> "errInd", ind |-> ind, status |-> "", idx |-> 0, binds |-> binds, exc |-> NoExc]
RaiseReply(e) ==
    [kind |-> "raise", ind |-> "", status |-> "", idx |-> 0, binds |-> <<>>, exc |-> e]

TransportDown == Raised("PySnmpError", <<"Network is unreachable">>)

\* a scalar of a group, and a cell of a table column, as the agent binds them
Scalar(group, name, value) == <<Get(group, name, <<>>), value>>
Cell(table, name, index, value) ==
    <<Get(table, name, <<>>) \o <<".">> \o Dotted(index), value>>

\* the GET of a group answered with noSuchObject for every requested oid (v2c)
AllMissing(group) == OkReply([i \in 1..Len(group) |-> <<group[i][2], PNoSuchObject>>])
\* ... and with the noSuchName error status (v1)
NoSuchName(group) ==
    ErrStatusReply("noSuchName", 1, [i \in 1..Len(group) |-> <<group[i][2], PNoSuchObject>>])

SysFull == OkReply(<<
    Scalar(SYSTEM, "sysDescr", POctets(<<"r", "t", "r">>)),
    Scalar(SYSTEM, "sysObjectID", POid(Dotted(<<1, 3, 6, 1, 4, 1, 9>>))),
    Scalar(SYSTEM, "sysUpTime", PTicks(8646100)),
    Scalar(SYSTEM, "sysContact", POctets(<<"n", "o", "c">>)),
    Scalar(SYSTEM, "sysName", POctets(<<"g", "w">>)),
    Scalar(SYSTEM, "sysLocation", POctets(<<"d", "c">>)),
    Scalar(SYSTEM, "sysServices", PInt(72)) >>)

\* the bindings in another order, one scalar missing from the response
SysReordered == OkReply(<<
    Scalar(SYSTEM, "sysServices", PInt(72)),
    Scalar(SYSTEM, "sysName", POctets(<<"g", "w">>)),
    Scalar(SYSTEM, "sysUpTime", PTicks(8646100)),
    Scalar(SYSTEM, "sysDescr", POctets(<<"r", "t", "r">>)),
    Scalar(SYSTEM, "sysLocation", POctets(<<"d", "c">>)),
    Scalar(SYSTEM, "sysObjectID", POid(Dotted(<<1, 3, 6, 1, 4, 1, 9>>))) >>)

\* a v2c agent without sysServices
SysNoServices == OkReply(<<
    Scalar(SYSTEM, "sysDescr", POctets(<<"r", "t", "r">>)),
    Scalar(SYSTEM, "sysUpTime", PTicks(0)),
    Scalar(SYSTEM, "sysName", POctets(<<"g", "w">>)),
    Scalar(SYSTEM, "sysServices", PNoSuchObject) >>)

SysReplies ==
    {SysFull, SysReordered, SysNoServices, NoSuchName(SYSTEM),
     ErrStatusReply("genErr", 0, <<>>), ErrStatusReply("genErr", 1, <<>>)}

HrFull == OkReply(<<
    Scalar(HR_SYSTEM, "hrSystemUptime", PTicks(500)),
    Scalar(HR_SYSTEM, "hrSystemNumUsers", PGauge(3)),
    Scalar(HR_SYSTEM, "hrSystemProcesses", PGauge(41)),
    Scalar(HR_SYSTEM, "hrMemorySize", PInt(2048)) >>)

\* memory size answered, the two gauges not implemented
HrMemoryOnly == OkReply(<<
    Scalar(HR_SYSTEM, "hrSystemUptime", PTicks(500)),
    Scalar(HR_SYSTEM, "hrSystemNumUsers", PNoSuchObject),
    Scalar(HR_SYSTEM, "hrSystemProcesses", PNoSuchObject),
    Scalar(HR_SYSTEM, "hrMemorySize", PInt(2048)) >>)

HrReplies == {HrFull, HrMemoryOnly, AllMissing(HR_SYSTEM), NoSuchName(HR_SYSTEM)}

\* two interfaces; the second one is sparse
IfRows == <<
    <<"ifIndex", <<Cell(IF_TABLE, "ifIndex", <<1>>, PInt(1)),
                   Cell(IF_TABLE, "ifIndex", <<2>>, PInt(2))>> >>,
    <<"ifDescr", <<Cell(IF_TABLE, "ifDescr", <<1>>, POctets(<<"e", "0">>)),
                   Cell(IF_TABLE, "ifDescr", <<2>>, POctets(<<"l", "o">>))>> >>,
    <<"ifMtu", <<Cell(IF_TABLE, "ifMtu", <<1>>, PInt(1500))>> >>,
    <<"ifSpeed", <<Cell(IF_TABLE, "ifSpeed", <<1>>, PGauge(100000000)),
                   Cell(IF_TABLE, "ifSpeed", <<2>>, PGauge(10000000))>> >>,
    <<"ifPhysAddress", <<Cell(IF_TABLE, "ifPhysAddress", <<1>>,
                              POctets(<<"0", "x", "0", "0", "1", "A">>))>> >>,
    <<"ifAdminStatus", <<Cell(IF_TABLE, "ifAdminStatus", <<1>>, PInt(1)),
                         Cell(IF_TABLE, "ifAdminStatus", <<2>>, PInt(2))>> >>,
    <<"ifOperStatus", <<Cell(IF_TABLE, "ifOperStatus", <<1>>, PInt(1)),
                        Cell(IF_TABLE, "ifOperStatus", <<2>>, PInt(9))>> >>,
    <<"ifInOctets", <<Cell(IF_TABLE, "ifInOctets", <<1>>, PCounter(700))>> >>,
    <<"ifOutOctets", <<Cell(IF_TABLE, "ifOutOctets", <<1>>, PCounter(900))>> >> >>

\* one interface whose MTU the agent binds as text
IfRowsBadMtu == <<
    <<"ifIndex", <<Cell(IF_TABLE, "ifIndex", <<1>>, PInt(1))>> >>,
    <<"ifMtu", <<Cell(IF_TABLE, "ifMtu", <<1>>, POctets(<<"x">>))>> >> >>

\* the extended table: interface 1, and interface 3 known to it alone
IfXRows == <<
    <<"ifName", <<Cell(IF_X_TABLE, "ifName", <<1>>, POctets(<<"g", "e", "1">>)),
                  Cell(IF_X_TABLE, "ifName", <<3>>, POctets(<<"g", "e", "3">>))>> >>,
    <<"ifHCInOctets", <<Cell(IF_X_TABLE, "ifHCInOctets", <<1>>, PCounter64(70000))>> >>,
    <<"ifHighSpeed", <<Cell(IF_X_TABLE, "ifHighSpeed", <<1>>, PGauge(1000)),
                       Cell(IF_X_TABLE, "ifHighSpeed", <<3>>, PGauge(0))>> >> >>

\* an extended table that reports the high speed 0 for interface 2, whose
\* ifTable row has a speed
IfXRowsZeroHighSpeed == <<
    <<"ifName", <<Cell(IF_X_TABLE, "ifName", <<2>>, POctets(<<"l", "o">>))>> >>,
    <<"ifHighSpeed", <<Cell(IF_X_TABLE, "ifHighSpeed", <<1>>, PGauge(100)),
                       Cell(IF_X_TABLE, "ifHighSpeed", <<2>>, PGauge(0))>> >> >>

\* two storage areas, returned in descending order; the first has size 0
StorageRows == <<
    <<"hrStorageIndex", <<Cell(HR_STORAGE_TABLE, "hrStorageIndex", <<2>>, PInt(2)),
                          Cell(HR_STORAGE_TABLE, "hrStorageIndex", <<1>>, PInt(1))>> >>,
    <<"hrStorageDescr", <<Cell(HR_STORAGE_TABLE, "hrStorageDescr", <<2>>, POctets(<<"/">>))>> >>,
    <<"hrStorageAllocationUnits",
        <<Cell(HR_STORAGE_TABLE, "hrStorageAllocationUnits", <<2>>, PInt(512)),
          Cell(HR_STORAGE_TABLE, "hrStorageAllocationUnits", <<1>>, PInt(1024))>> >>,
    <<"hrStorageSize", <<Cell(HR_STORAGE_TABLE, "hrStorageSize", <<2>>, PInt(1000)),
                         Cell(HR_STORAGE_TABLE, "hrStorageSize", <<1>>, PInt(0))>> >>,
    <<"hrStorageUsed", <<Cell(HR_STORAGE_TABLE, "hrStorageUsed", <<2>>, PInt(500))>> >> >>

StorageRowsBadSize == <<
    <<"hrStorageSize", <<Cell(HR_STORAGE_TABLE, "hrStorageSize", <<1>>, POctets(<<"x">>))>> >> >>

\* two processors; a third entry with a suffix that is no number
CpuRows == <<
    <<"hrProcessorLoad", <<Cell(HR_PROCESSOR_TABLE, "hrProcessorLoad", <<1>>, PInt(7)),
                           Cell(HR_PROCESSOR_TABLE, "hrProcessorLoad", <<2>>, PInt(93)),
                           <<Get(HR_PROCESSOR_TABLE, "hrProcessorLoad", <<>>) \o <<".", "x">>,
                             PInt(5)>> >> >> >>

CpuRowsBadLoad == <<
    <<"hrProcessorLoad", <<Cell(HR_PROCESSOR_TABLE, "hrProcessorLoad", <<1>>,
                                POctets(<<"x">>))>> >> >>

NoRows == <<>>

IfOptions == {IfRows, IfRowsBadMtu, NoRows}
IfXOptions == {IfXRows, IfXRowsZeroHighSpeed, NoRows}
StorageOptions == {StorageRows, StorageRowsBadSize, NoRows}
CpuOptions == {CpuRows, CpuRowsBadLoad, NoRows}

Agent(sys, hr, iftab, ifx, storage, cpu) ==
    [sys |-> sys, hr |-> hr, cols |-> iftab \o ifx \o storage \o cpu]

\* the agent with every group and table, the agent with the system group
\* only (answering as a v2c or as a v1 agent), and every agent that differs
\* from the full one in one group or table
FullAgent == Agent(SysFull, HrFull, IfRows, IfXRows, StorageRows, CpuRows)

SystemOnlyAgents ==
    {Agent(SysFull, hr, NoRows, NoRows, NoRows, NoRows) :
        hr \in {AllMissing(HR_SYSTEM), NoSuchName(HR_SYSTEM)}}

Agents ==
    {FullAgent} \cup SystemOnlyAgents
    \cup {Agent(sys, HrFull, IfRows, IfXRows, StorageRows, CpuRows) : sys \in SysReplies}
    \cup {Agent(SysFull, hr, IfRows, IfXRows, StorageRows, CpuRows) : hr \in HrReplies}
    \cup {Agent(SysFull, HrFull, t, IfXRows, StorageRows, CpuRows) : t \in IfOptions}
    \cup {Agent(SysFull, HrFull, IfRows, t, StorageRows, CpuRows) : t \in IfXOptions}
    \cup {Agent(SysFull, HrFull, IfRows, IfXRows, t, CpuRows) : t \in StorageOptions}
    \cup {Agent(SysFull, HrFull, IfRows, IfXRows, StorageRows, t) : t \in CpuOptions}

\* the friendly names and the requests of the custom poll
NameA == <<"a">>
NameB == <<"b">>

Requests ==
    { << <<NameA, Dotted(<<1, 3, 1>>)>> >>,
      << <<NameA, Dotted(<<1, 3, 1>>)>>, <<NameB, Dotted(<<1, 3, 10>>)>> >>,
      << <<NameB, Dotted(<<1, 3, 10>>)>>, <<NameA, Dotted(<<1, 3, 1>>)>> >>,
      << <<NameA, <<".">> \o Dotted(<<1, 3, 1>>)>>, <<NameB, Dotted(<<1, 3, 2>>)>> >> }

\* how an agent names the objects of a custom GET in its response: by the
\* requested oid, by the oid of the object's instance, with a leading dot,
\* or by the oid of another object
AnswerStyles == {"exact", "instance", "dotted", "other"}

Answered(oid, style) ==
    CASE style = "exact" -> LStrip(oid, ".")
      [] style = "instance" -> LStrip(oid, ".") \o <<".", "0">>
      [] style = "dotted" -> <<".">> \o LStrip(oid, ".")
      [] OTHER -> <<"2", ".">> \o LStrip(oid, ".")

CustomAnswer(oids, style) ==
    OkReply([i \in 1..Len(oids) |-> <<Answered(oids[i][2], style), PInt(10 + i)>>])

CustomReplies(oids) ==
    {CustomAnswer(oids, style) : style \in AnswerStyles}
    \cup {ErrStatusReply("noSuchName", 1, [i \in 1..Len(oids) |-> <<oids[i][2], PNoSuchObject>>])}

----------------------------------------------------------------------------
(* The state machine *)

\* failures that may be injected into one behaviour
MaxFaults == 1

\* a failure: the stage whose exchange it hit, and how the exchange ended: no
\* response before the timeout, an exception of the transport, or a WALK
\* broken off by an error status of the agent
NoFault == <<>>
Fault(stage, kind) == <<[stage |-> stage, kind |-> kind]>>
FaultOf(stage, reply) ==
    CASE reply.kind = "raise" -> Fault(stage, "exception")
      [] reply.kind = "errInd" -> Fault(stage, "timeout")
      [] reply.kind = "errStatus" -> Fault(stage, "status")
      [] OTHER -> NoFault

\* operations a caller may run one after the other on the same instance
MaxRuns == 2

\* a variant of the check that does not reuse the transport an earlier
\* operation created
NeedsTransportPerOperation == transport = "none" \/ creates <= previous.n

\* if self._transport is None (line 114)
NeedsTransport == transport = "none"

\* getting: the task running the operation of op ("main") and a second task
\* on the same instance ("peer") are each outside _get_transport ("out"),
\* suspended in the await of line 115 ("creating"), or back from it with the
\* transport it returned ("got"); transports are numbered as created
NotGetting ==
    [main |-> [phase |-> "out", transport |-> 0],
     peer |-> [phase |-> "idle", transport |-> 0]]

\* previous: n counts the operations that have ended on this instance; the
\* other fields are those of the last one
NotRun ==
    [n |-> 0, op |-> "none", request |-> <<>>, result |-> NoneV, outcome |-> NotFinished,
     values |-> <<>>]

Idle == [stage |-> "idle", col |-> 0, phase |-> "idle"]
Done == [stage |-> "done", col |-> 0, phase |-> "done"]

\* SNMPPoller.__init__ (lines 79-110): no transport yet; no operation started
Constructed ==
    /\ transport = "none"
    /\ creates = 0
    /\ clock = 0
    /\ faults = <<>>
    /\ op = "idle"
    /\ request = <<>>
    /\ pc = Idle
    /\ inflight = {}
    /\ log = <<>>
    /\ start = 0
    /\ result = NoneV
    /\ frame = NewFrame
    /\ outcome = NotFinished
    /\ previous = NotRun
    /\ getting = NotGetting

\* a new instance and the agent at its host
Init ==
    /\ agent \in Agents
    /\ Constructed

\* the first two lines of every top-level operation, up to its first await
Enter(opk, oids) ==
    /\ op = "idle"
    /\ op' = opk
    /\ request' = oids
    /\ start' = clock
    /\ result' = NewPollResult(clock)
    /\ frame' = NewFrame
    /\ pc' = [stage |-> FirstStage(opk), col |-> 1, phase |-> "call"]
    /\ UNCHANGED <<agent, transport, creates, clock, faults, inflight, log, outcome,
                   previous, getting>>

AsyncPoll == Enter(POLL, <<>>)

AsyncPollSystem == Enter(POLL_SYSTEM, <<>>)

AsyncPollInterfaces == Enter(POLL_INTERFACES, <<>>)

AsyncPollCustom == \E oids \in Requests : Enter(POLL_CUSTOM, oids)

\* the exchange the operation is about to issue
Exchange(stage, col, oids) ==
    CASE stage = "system" -> [stage |-> stage, kind |-> "get", oids |-> Values(SYSTEM)]
      [] stage = "hr" -> [stage |-> stage, kind |-> "get", oids |-> Values(HR_SYSTEM)]
      [] stage = "custom" -> [stage |-> stage, kind |-> "get", oids |-> Values(oids)]
      [] stage = "table" -> [stage |-> stage, kind |-> "walk", oids |-> <<oids[col][2]>>]
      [] OTHER -> [stage |-> stage, kind |-> "walk", oids |-> <<StageTable(stage)[col][2]>>]

\* the synchronous code that follows the await at pc, given what the await
\* produced, up to the next await or to the end of the operation
Ended(fin) ==
    /\ result' = fin.result
    /\ outcome' = fin.outcome
    /\ pc' = Done

Resumed(a, fault) ==
    /\ clock' = clock + 1
    /\ faults' = faults \o fault
    /\ frame' = a.frame
    /\ IF a.end
       THEN Ended(Finish(op, a.result, a.exc, pc.stage, clock + 1, start))
       ELSE /\ result' = a.result
            /\ pc' = [stage |-> a.stage, col |-> a.col, phase |-> "call"]
            /\ UNCHANGED outcome
    /\ UNCHANGED <<agent, op, request, log, start, previous, getting>>

Resume(got, fault) ==
    Resumed(After(op, result, frame, request, pc.stage, pc.col, got), fault)

\* _get_transport (lines 112-120) when no transport exists: the await of
\* UdpTransportTarget.create, which returns the transport or raises
GetTransport ==
    /\ pc.phase = "call"
    /\ NeedsTransport
    /\ \/ /\ transport' = "created"
          /\ creates' = creates + 1
          /\ clock' = clock + 1
          /\ UNCHANGED <<agent, faults, op, request, pc, inflight, log, start, result,
                         frame, outcome, previous, getting>>
       \/ /\ Len(faults) < MaxFaults
          /\ Resume(Fail(TransportDown), Fault(pc.stage, "exception"))
          /\ UNCHANGED <<transport, creates, inflight>>

\* get_cmd / walk_cmd is called with the cached transport: the request is sent
Issue ==
    /\ pc.phase = "call"
    /\ ~NeedsTransport
    /\ getting.main.phase # "creating"
    /\ LET x == Exchange(pc.stage, pc.col, request)
       IN /\ inflight' = inflight \cup {[n |-> Len(log) + 1, x |-> x]}
          /\ log' = Append(log, x)
    /\ pc' = [pc EXCEPT !.phase = "wait"]
    /\ UNCHANGED <<agent, transport, creates, clock, faults, op, request, start, result,
                   frame, outcome, previous, getting>>

\* a variant in which a transport that has served an earlier operation
\* brings no answer back
AgentGetRepliesOverFresh(stage, oids) ==
    IF previous.n > 0 THEN {ErrIndReply("Transport is closed", <<>>)}
    ELSE CASE stage = "system" -> {agent.sys}
           [] stage = "hr" -> {agent.hr}
           [] OTHER -> CustomReplies(oids)

\* what the agent answers to the GET of a stage
AgentGetReplies(stage, oids) ==
    CASE stage = "system" -> {agent.sys}
      [] stage = "hr" -> {agent.hr}
      [] OTHER -> CustomReplies(oids)

\* the failures of a GET that are the transport's, not the agent's answer
GetFaults == {ErrIndReply(TimedOut, <<>>), RaiseReply(TransportDown)}

\* the GET ends: the agent's response, a timeout, or an exception of the transport
CompleteGet ==
    /\ pc.phase = "wait"
    /\ pc.stage \notin WalkStages
    /\ inflight' = {}
    /\ UNCHANGED <<transport, creates>>
    /\ \E reply \in AgentGetReplies(pc.stage, request)
                    \cup (IF Len(faults) < MaxFaults THEN GetFaults ELSE {}) :
          Resume(GetResult(reply),
                 IF reply \in GetFaults THEN FaultOf(pc.stage, reply) ELSE NoFault)

\* what the agent holds in a column
Column(stage, col) == Get(agent.cols, StageTable(stage)[col][1], <<>>)

\* the failures of a WALK: no response after k entries, an error status in
\* place of entry k + 1, or an exception
WalkFaults(data) ==
    {ErrIndReply(TimedOut, SubSeq(data, 1, k)) : k \in 0..Len(data)}
    \cup {ErrStatusReply("genErr", 1, SubSeq(data, 1, k)) : k \in 0..(Len(data) - 1)}
    \cup {RaiseReply(TransportDown)}

\* the WALK of a column ends: at the end of the column, broken off by an
\* error indication or an error status after k entries, or by an exception
CompleteWalk ==
    /\ pc.phase = "wait"
    /\ pc.stage \in WalkStages
    /\ inflight' = {}
    /\ UNCHANGED <<transport, creates>>
    /\ \E reply \in {OkReply(Column(pc.stage, pc.col))}
                    \cup (IF Len(faults) < MaxFaults
                          THEN WalkFaults(Column(pc.stage, pc.col)) ELSE {}) :
          Resume(WalkResult(reply), FaultOf(pc.stage, reply))

Next ==
    \/ AsyncPoll
    \/ AsyncPollSystem
    \/ AsyncPollInterfaces
    \/ AsyncPollCustom
    \/ GetTransport
    \/ Issue
    \/ CompleteGet
    \/ CompleteWalk

Spec == Init /\ [][Next]_vars

----------------------------------------------------------------------------
(* Operations run one after the other on the same instance *)

\* the agents polled repeatedly: the full one, one with the system group
\* only, one that refuses the first GET, one whose interface rows do not
\* assemble
RepeatAgents ==
    {FullAgent,
     Agent(SysFull, NoSuchName(HR_SYSTEM), NoRows, NoRows, NoRows, NoRows),
     Agent(NoSuchName(SYSTEM), HrFull, IfRows, IfXRows, StorageRows, CpuRows),
     Agent(SysFull, HrFull, IfRowsBadMtu, IfXRows, StorageRows, CpuRows)}

InitRepeat == Init /\ agent \in RepeatAgents

\* the caller has the outcome of an operation and goes on to call another
\* one: the instance keeps its transport, the operation's locals are gone
Again ==
    /\ outcome.kind # "none"
    /\ previous.n + 1 < MaxRuns
    /\ previous' = [n |-> previous.n + 1, op |-> op, request |-> request, result |-> result,
                    outcome |-> outcome, values |-> frame.values]
    /\ op' = "idle"
    /\ request' = <<>>
    /\ pc' = Idle
    /\ log' = <<>>
    /\ result' = NoneV
    /\ frame' = NewFrame
    /\ outcome' = NotFinished
    /\ UNCHANGED <<agent, transport, creates, clock, faults, inflight, start, getting>>

\* over the created transport every exchange is answered: in this
\* specification the network fails only while the transport is being created
AnsweredGet == CompleteGet /\ faults' = faults

AnsweredWalk == CompleteWalk /\ faults' = faults

NextRepeat ==
    \/ AsyncPoll
    \/ AsyncPollSystem
    \/ AsyncPollInterfaces
    \/ AsyncPollCustom
    \/ GetTransport
    \/ Issue
    \/ AnsweredGet
    \/ AnsweredWalk
    \/ Again

SpecRepeat == InitRepeat /\ [][NextRepeat]_vars

----------------------------------------------------------------------------
(* _walk_table called on its own, with a column mapping of the caller *)

WALK_TABLE == "walk_table"

\* a table of two columns, as the *_TABLE dicts of oids.py
TABLE == << <<"a", Dotted(<<1, 3, 5, 1, 1>>)>>, <<"b", Dotted(<<1, 3, 5, 1, 2>>)>> >>

\* the column_oids a caller passes: both columns in either order, one
\* column, none
ColumnMappings == {TABLE, <<TABLE[2], TABLE[1]>>, <<TABLE[1]>>, <<>>}

\* what an agent holds in the table: the cells it reports, each with the
\* suffix of its identifier (the row index first) and its value, in the order
\* in which it returns them
SparseCells ==
    << [column |-> "a", suffix |-> <<2>>, value |-> 20],
       [column |-> "a", suffix |-> <<7, 1>>, value |-> 71],
       [column |-> "b", suffix |-> <<9>>, value |-> 90],
       [column |-> "b", suffix |-> <<2>>, value |-> 21] >>

DenseCells ==
    << [column |-> "b", suffix |-> <<1>>, value |-> 11],
       [column |-> "a", suffix |-> <<1>>, value |-> 10],
       [column |-> "a", suffix |-> <<0>>, value |-> 5] >>

CellSets == {SparseCells, DenseCells, <<>>}

IsColumn(cell, name) == cell.column = name

\* the entries of a column as the agent returns them
ColumnEntries(cells, name) ==
    LET own == SelectSeq(cells, LAMBDA cell : IsColumn(cell, name))
    IN [i \in 1..Len(own) |-> Cell(TABLE, name, own[i].suffix, PInt(own[i].value))]

\* entries whose identifier has no row index after the base: a suffix that
\* is no number, and none at all
OddEntries(name) ==
    << <<Get(TABLE, name, <<>>) \o <<".", "x">>, PInt(1)>>,
       <<Get(TABLE, name, <<>>), PInt(2)>> >>

\* an agent reporting the cells; when odd, column a comes with the odd
\* entries between its first entry and the others
TableAgent(cells, odd) ==
    LET a == ColumnEntries(cells, "a")
        mixed == IF odd /\ a # <<>> THEN <<Head(a)>> \o OddEntries("a") \o Tail(a)
                 ELSE IF odd THEN OddEntries("a") ELSE a
    IN Agent(NoSuchName(SYSTEM), NoSuchName(HR_SYSTEM),
             << <<"a", mixed>>, <<"b", ColumnEntries(cells, "b")>> >>, NoRows, NoRows, NoRows)

\* entries a WALK that runs on past the column returns: one of the sibling
\* column whose last component is that of column a with one more digit, and
\* one of another table
StrayEntries ==
    << <<Dotted(<<1, 3, 5, 1, 10, 5>>), PInt(105)>>,
       <<Dotted(<<1, 3, 5, 2, 1, 4, 0>>), PInt(140)>> >>

\* an agent whose WALK of column a runs on past the column
StrayAgent ==
    Agent(NoSuchName(SYSTEM), NoSuchName(HR_SYSTEM),
          << <<"a", ColumnEntries(SparseCells, "a") \o StrayEntries>>,
             <<"b", ColumnEntries(SparseCells, "b")>> >>, NoRows, NoRows, NoRows)

TableAgents == {TableAgent(cells, odd) : cells \in CellSets, odd \in BOOLEAN} \cup {StrayAgent}

InitTable ==
    /\ agent \in TableAgents
    /\ Constructed

\* table = {} and the head of the loop over column_oids.items() (lines
\* 180-182); without columns the empty table is returned at once (line 191)
CallWalkTable ==
    \E column_oids \in ColumnMappings :
        /\ op = "idle"
        /\ op' = WALK_TABLE
        /\ request' = column_oids
        /\ start' = clock
        /\ frame' = NewFrame
        /\ IF column_oids = <<>>
           THEN pc' = Done /\ outcome' = [kind |-> "returned", exc |-> NoExc, at |-> "none"]
           ELSE pc' = [stage |-> "table", col |-> 1, phase |-> "call"] /\ UNCHANGED outcome
        /\ UNCHANGED <<agent, transport, creates, clock, faults, inflight, log, result,
                       previous, getting>>

\* here the transport is created without failure
TableTransport == GetTransport /\ transport' = "created"

\* the WALK of the column ends or breaks off, then lines 183-189 for every
\* entry received, then the next column or "return table"; an exception of
\* the WALK leaves _walk_table.  A failure is recorded with the name of the
\* column it hit.
CompleteTableWalk ==
    /\ pc.phase = "wait"
    /\ pc.stage = "table"
    /\ inflight' = {}
    /\ clock' = clock + 1
    /\ \E reply \in {OkReply(Get(agent.cols, request[pc.col][1], <<>>))}
                    \cup (IF Len(faults) < MaxFaults
                          THEN WalkFaults(Get(agent.cols, request[pc.col][1], <<>>))
                          ELSE {}) :
          LET got == WalkResult(reply)
              hit == FaultOf(request[pc.col][1], reply)
          IN /\ faults' = faults \o hit
             /\ IF IsExc(got.exc)
                THEN /\ outcome' = [kind |-> "raised", exc |-> got.exc, at |-> "table"]
                     /\ pc' = Done
                     /\ UNCHANGED frame
                ELSE /\ frame' = [frame EXCEPT !.table =
                                    Pivot(frame.table, request[pc.col][1],
                                          request[pc.col][2], got.val)]
                     /\ IF pc.col < Len(request)
                        THEN /\ pc' = [stage |-> "table", col |-> pc.col + 1,
                                       phase |-> "call"]
                             /\ UNCHANGED outcome
                        ELSE /\ pc' = Done
                             /\ outcome' = [kind |-> "returned", exc |-> NoExc,
                                            at |-> "none"]
    /\ UNCHANGED <<agent, transport, creates, op, request, log, start, result, previous,
                   getting>>

NextTable ==
    \/ CallWalkTable
    \/ TableTransport
    \/ Issue
    \/ CompleteTableWalk

SpecTable == InitTable /\ [][NextTable]_vars

----------------------------------------------------------------------------
(* The assemblers over a range of agent data, every exchange answered *)

\* what an agent reports in a cell: nothing (the column lacks the row), or
\* one value
Missing == <<>>
Reported(n) == <<n>>

AllocChoices == <<Missing, Reported(0), Reported(1), Reported(512)>>
SizeChoices == <<Missing, Reported(0), Reported(3), Reported(1000)>>
UsedChoices == <<Missing, Reported(0), Reported(2), Reported(500)>>

\* storage row i reports the i-th combination of a size and a used count
SizeOfRow(i) == SizeChoices[((i - 1) \div Len(UsedChoices)) + 1]
UsedOfRow(i) == UsedChoices[((i - 1) % Len(UsedChoices)) + 1]
StorageCases == 1..(Len(SizeChoices) * Len(UsedChoices))

\* the entries of a column for the rows that report it, row i reporting
\* what choice gives
RECURSIVE ColumnCells(_, _, _, _, _)
ColumnCells(table, name, choice(_), i, last) ==
    IF i > last THEN <<>>
    ELSE (IF choice(i) = Missing THEN <<>>
          ELSE <<Cell(table, name, <<i>>, PInt(choice(i)[1]))>>)
         \o ColumnCells(table, name, choice, i + 1, last)

\* the storage table of an agent with one allocation unit for all rows
StorageTableOf(alloc) ==
    LET last == Len(SizeChoices) * Len(UsedChoices)
        Index(i) == Reported(i)
        Alloc(i) == alloc
    IN << <<"hrStorageIndex", ColumnCells(HR_STORAGE_TABLE, "hrStorageIndex", Index, 1, last)>>,
          <<"hrStorageAllocationUnits",
            ColumnCells(HR_STORAGE_TABLE, "hrStorageAllocationUnits", Alloc, 1, last)>>,
          <<"hrStorageSize", ColumnCells(HR_STORAGE_TABLE, "hrStorageSize", SizeOfRow, 1, last)>>,
          <<"hrStorageUsed", ColumnCells(HR_STORAGE_TABLE, "hrStorageUsed", UsedOfRow, 1, last)>> >>

StorageAgent(alloc) == Agent(SysFull, HrFull, NoRows, NoRows, StorageTableOf(alloc), NoRows)

StorageAgents == {StorageAgent(AllocChoices[i]) : i \in 1..Len(AllocChoices)}

\* an agent whose interface row i reports the i-th status code, as its
\* administrative and as its operational status
StatusChoices ==
    <<Missing, Reported(0 - 1), Reported(0), Reported(1), Reported(2), Reported(3),
      Reported(4), Reported(5), Reported(6), Reported(7), Reported(8), Reported(9)>>

StatusOfRow(i) == StatusChoices[i]

StatusTable ==
    LET Index(i) == Reported(i)
    IN << <<"ifIndex", ColumnCells(IF_TABLE, "ifIndex", Index, 1, Len(StatusChoices))>>,
          <<"ifAdminStatus",
            ColumnCells(IF_TABLE, "ifAdminStatus", StatusOfRow, 1, Len(StatusChoices))>>,
          <<"ifOperStatus",
            ColumnCells(IF_TABLE, "ifOperStatus", StatusOfRow, 1, Len(StatusChoices))>> >>

StatusAgent == Agent(SysFull, HrFull, StatusTable, NoRows, NoRows, NoRows)

\* the responses to the system GET: every ordering of every subset of four
\* of the bindings, and the seven bindings rotated and reversed
SomeBindings == {SysFull.binds[1], SysFull.binds[3], SysFull.binds[5], SysFull.binds[7]}

Orderings(S) ==
    {f \in [1..Cardinality(S) -> S] :
        \A i, j \in 1..Cardinality(S) : i # j => f[i] # f[j]}

Rotated(s, k) == [i \in 1..Len(s) |-> s[((i + k - 1) % Len(s)) + 1]]
Reversed(s) == [i \in 1..Len(s) |-> s[Len(s) + 1 - i]]

SystemResponses ==
    UNION {Orderings(S) : S \in SUBSET SomeBindings}
    \cup {Rotated(SysFull.binds, k) : k \in 0..(Len(SysFull.binds) - 1)}
    \cup {Reversed(SysFull.binds)}

SystemAgents ==
    {Agent(OkReply(binds), HrFull, NoRows, NoRows, NoRows, NoRows) : binds \in SystemResponses}

DataAgents == StorageAgents \cup {StatusAgent} \cup SystemAgents

InitData ==
    /\ agent \in DataAgents
    /\ Constructed

NextData ==
    \/ AsyncPoll
    \/ AsyncPollSystem
    \/ AsyncPollInterfaces
    \/ AsyncPollCustom
    \/ TableTransport
    \/ Issue
    \/ AnsweredGet
    \/ AnsweredWalk

SpecData == InitData /\ [][NextData]_vars

----------------------------------------------------------------------------
(* Two top-level operations running concurrently on one instance.  Of the   *)
(* second one (the peer) only its first call of _get_transport is followed. *)
(* _get_transport suspends in "await UdpTransportTarget.create(...)" (line  *)
(* 115), after the test of line 114 and before the assignment.              *)

Tasks == {"main", "peer"}

\* the caller starts a second operation while the first has not finished
StartPeer ==
    /\ op \in Operations
    /\ outcome.kind = "none"
    /\ getting.peer.phase = "idle"
    /\ getting' = [getting EXCEPT !.peer.phase = "call"]
    /\ UNCHANGED <<agent, transport, creates, clock, faults, op, request, pc, inflight, log,
                   start, result, frame, outcome, previous>>

\* whether the task is about to call _get_transport
Calling(task) ==
    IF task = "main" THEN pc.phase = "call" /\ getting.main.phase = "out"
    ELSE getting.peer.phase = "call"

\* lines 114-115: the task finds no transport and awaits its creation
CheckTransport(task) ==
    /\ Calling(task)
    /\ NeedsTransport
    /\ getting' = [getting EXCEPT ![task].phase = "creating"]
    /\ UNCHANGED <<agent, transport, creates, clock, faults, op, request, pc, inflight, log,
                   start, result, frame, outcome, previous>>

\* lines 115-120: create returns to the task, which assigns the new
\* transport to self._transport and returns it
CreateReturns(task) ==
    /\ getting[task].phase = "creating"
    /\ transport' = "created"
    /\ creates' = creates + 1
    /\ clock' = clock + 1
    /\ getting' = [getting EXCEPT ![task] = [phase |-> "got", transport |-> creates + 1]]
    /\ UNCHANGED <<agent, faults, op, request, pc, inflight, log, start, result, frame,
                   outcome, previous>>

\* lines 114, 120: the peer finds the transport and returns it (the main
\* task does so in Issue)
PeerReuses ==
    /\ Calling("peer")
    /\ ~NeedsTransport
    /\ getting' = [getting EXCEPT !.peer = [phase |-> "got", transport |-> creates]]
    /\ UNCHANGED <<agent, transport, creates, clock, faults, op, request, pc, inflight, log,
                   start, result, frame, outcome, previous>>

InitConcurrent ==
    /\ agent \in {FullAgent} \cup SystemOnlyAgents
    /\ Constructed

NextConcurrent ==
    \/ AsyncPoll
    \/ AsyncPollSystem
    \/ AsyncPollInterfaces
    \/ AsyncPollCustom
    \/ StartPeer
    \/ \E task \in Tasks : CheckTransport(task)
    \/ \E task \in Tasks : CreateReturns(task)
    \/ PeerReuses
    \/ Issue
    \/ AnsweredGet
    \/ AnsweredWalk

SpecConcurrent == InitConcurrent /\ [][NextConcurrent]_vars

----------------------------------------------------------------------------
(* Properties of the top-level operations *)

HasFinished == outcome.kind # "none"
HasReturned == outcome.kind = "returned"

\* the sections of a PollResult in the order of the try block of async_poll
Sections == <<"device", "interfaces", "storage", "cpu">>
Rank(section) == CHOOSE i \in 1..Len(Sections) : Sections[i] = section

DeviceAbsent(res) == res.device = NoneV

\* whether a section of a result holds its dataclass default
AtDefault(res, section) ==
    CASE section = "device" -> DeviceAbsent(res)
      [] section = "interfaces" -> res.interfaces = <<>>
      [] section = "storage" -> res.storage = <<>>
      [] OTHER -> res.cpu = <<>>

\* whether two results hold the same value in a section
SameSection(a, b, section) ==
    CASE section = "device" -> a.device = b.device
      [] section = "interfaces" -> a.interfaces = b.interfaces
      [] section = "storage" -> a.storage = b.storage
      [] OTHER -> a.cpu = b.cpu

\* C1: every top-level operation never raises: whatever fails inside it, it
\* returns a PollResult instead of letting the exception escape to its caller.
NeverRaises == outcome.kind # "raised"

\* C2: in every PollResult a top-level operation returns, error is set, and
\* then is a non-empty text, if and only if status is not success.
ErrorIffNotSuccess ==
    HasReturned =>
        /\ (result.error # NoneV) <=> (result.status # SUCCESS)
        /\ result.error # NoneV => Truthy(result.error)

ErrorIffNotSuccessWitness ==
    /\ HasReturned
    /\ result.status = ERROR
    /\ Truthy(result.error)
    /\ StartsWith(result.error.s, <<"SNMP GET error: ">>)

\* a step of the full poll raised: this transition ends the try block of
\* async_poll with an exception
StepRaises ==
    /\ op = POLL
    /\ ~HasFinished
    /\ outcome'.kind = "returned"
    /\ IsExc(outcome'.exc)

\* what async_poll returns when the step of a section raised
AbortedAt(section) ==
    /\ result'.status = ERROR
    /\ outcome'.exc.msg # <<>>
    /\ EndsWith(result'.error.s, outcome'.exc.msg)
    /\ log' = log
    /\ pc' = Done
    /\ \A k \in 1..Len(Sections) :
          IF k < Rank(section)
          THEN /\ SameSection(result', result, Sections[k])
               /\ Sections[k] = "device" => ~DeviceAbsent(result')
          ELSE AtDefault(result', Sections[k])

\* C3: in a full poll, when a step raises, no exchange of a later section is
\* attempted (none is issued by the failing transition nor after the
\* operation has ended), the returned status is error with the exception's
\* message recorded in error, every section completed before the failure
\* keeps the value it was given, and the failed and the later sections are
\* left at their empty defaults.
FailedStepAborts ==
    [][/\ StepRaises => AbortedAt(SectionOf(outcome'.at))
       /\ HasFinished => log' = log]_vars

FailedStepAbortsWitness ==
    /\ op = POLL
    /\ HasReturned
    /\ outcome.exc.type = "ValueError"
    /\ outcome.at = "storage"
    /\ result.status = ERROR
    /\ ~DeviceAbsent(result)
    /\ Len(result.interfaces) = 3
    /\ result.storage = <<>>
    /\ result.cpu = <<>>

\* C4: within one full poll the sections are fetched in the order system
\* info, interfaces, storage, CPU: the exchanges start in the system section
\* and each next one belongs to the same or to the following section; at
\* most one exchange is outstanding, and it is the one issued last, so an
\* exchange is issued only when all earlier ones have completed.
SectionsInSequence ==
    op = POLL =>
        /\ Cardinality(inflight) <= 1
        /\ \A m \in inflight : m.n = Len(log) /\ m.x = log[m.n]
        /\ Len(log) > 0 => SectionOf(log[1].stage) = "device"
        /\ \A i \in 1..(Len(log) - 1) :
              Rank(SectionOf(log[i + 1].stage)) - Rank(SectionOf(log[i].stage)) \in {0, 1}

SectionsInSequenceWitness ==
    /\ op = POLL
    /\ \E m \in inflight : m.x.stage = "cpu"
    /\ \E i \in 1..Len(log) : log[i].stage = "storage"
    /\ \E i \in 1..Len(log) : log[i].stage = "ifx"

\* a failure of the transport hit an exchange: no response before the
\* timeout, or an exception such as an unreachable network
TransportFailed ==
    \E i \in 1..Len(faults) : faults[i].kind \in {"timeout", "exception"}

\* C5: a transport-level failure during any exchange of a top-level
\* operation, a column WALK and the host-resource GET included, reaches the
\* operation boundary and yields a PollResult whose status is not success.
TransportFailureNotSuccess ==
    (HasReturned /\ TransportFailed) => result.status # SUCCESS

\* the agents that lack nothing but optional data: the system group is
\* answered, each other group or table is either served or not implemented
LackingOptionalData ==
    {Agent(sys, hr, iftab, ifx, storage, cpu) :
        sys \in {SysFull, SysReordered},
        hr \in {HrFull, HrMemoryOnly, AllMissing(HR_SYSTEM), NoSuchName(HR_SYSTEM)},
        iftab \in {IfRows, NoRows}, ifx \in {IfXRows, NoRows},
        storage \in {StorageRows, NoRows}, cpu \in {CpuRows, NoRows}}

\* C6: a full poll of an agent that answers the system-group GET and has
\* neither the host-resource scalars nor any of the four tables returns
\* status success, the device populated from the system group with its
\* three host-resource fields zero, and interfaces, storage and cpu empty;
\* and no agent that merely lacks optional data gets status error.
SystemOnlyAgentSucceeds ==
    (op = POLL /\ HasFinished /\ faults = <<>>) =>
        /\ agent \in SystemOnlyAgents =>
              /\ HasReturned
              /\ result.status = SUCCESS
              /\ result.error = NoneV
              /\ ~DeviceAbsent(result)
              /\ result.device.sys_name = <<"g", "w">>
              /\ result.device.sys_descr = <<"r", "t", "r">>
              /\ result.device.sys_uptime_ticks = 8646100
              /\ result.device.sys_services = 72
              /\ result.device.memory_total_kb = 0
              /\ result.device.num_users = 0
              /\ result.device.num_processes = 0
              /\ result.interfaces = <<>>
              /\ result.storage = <<>>
              /\ result.cpu = <<>>
              /\ Len(log) = 2 + Len(IF_TABLE) + Len(IF_X_TABLE)
                              + Len(HR_STORAGE_TABLE) + Len(HR_PROCESSOR_TABLE)
        /\ agent \in LackingOptionalData =>
              HasReturned /\ result.status = SUCCESS /\ ~DeviceAbsent(result)

SystemOnlyAgentSucceedsWitness ==
    /\ op = POLL
    /\ HasReturned
    /\ faults = <<>>
    /\ agent = Agent(SysFull, NoSuchName(HR_SYSTEM), NoRows, NoRows, NoRows, NoRows)
    /\ result.status = SUCCESS
    /\ result.device.sys_name = <<"g", "w">>
    /\ result.device.memory_total_kb = 0

\* the first GET of the poll ended in a protocol error: the agent answered
\* it with an error status, or no response arrived before the timeout
FirstGetFailed ==
    \/ /\ faults = <<>>
       /\ agent.sys.kind = "errStatus"
       /\ agent.sys.idx <= Len(agent.sys.binds)
    \/ /\ faults # <<>>
       /\ faults[1] = [stage |-> "system", kind |-> "timeout"]

\* C7: a full poll whose first system-group GET fails with a protocol error
\* issues that one exchange and no other, and returns status error, a
\* non-empty error message (that of the GET), no device, and interfaces,
\* storage, cpu and custom all empty.
FirstGetFailureEndsPoll ==
    (op = POLL /\ FirstGetFailed) =>
        /\ Len(log) <= 1
        /\ pc.stage \in {"system", "done"}
        /\ HasFinished =>
              /\ HasReturned
              /\ outcome.exc.type = "SNMPError"
              /\ result.status = ERROR
              /\ Truthy(result.error)
              /\ StartsWith(result.error.s, <<"SNMP GET error: ">>)
              /\ DeviceAbsent(result)
              /\ result.interfaces = <<>>
              /\ result.storage = <<>>
              /\ result.cpu = <<>>
              /\ result.custom = <<>>
              /\ Len(log) = 1
              /\ inflight = {}

FirstGetFailureEndsPollWitness ==
    /\ op = POLL
    /\ HasReturned
    /\ agent.sys = NoSuchName(SYSTEM)
    /\ faults = <<>>
    /\ result.status = ERROR
    /\ result.error = StrV(<<"SNMP GET error: ", "noSuchName", " at ">>
                           \o Get(SYSTEM, "sysDescr", <<>>))
    /\ DeviceAbsent(result)

\* the sections whose exchanges the operation has issued
SectionsFetched == {SectionOf(log[i].stage) : i \in 1..Len(log)}

\* C8: the status of a PollResult is success or error at every point of
\* every top-level operation, so partial, timeout and unreachable are never
\* produced; and a full poll that returns success has run all four section
\* steps, none of which raised, and holds a device.
StatusSuccessOrError ==
    /\ op # "idle" => result.status \in {SUCCESS, ERROR}
    /\ (op = POLL /\ HasReturned /\ result.status = SUCCESS) =>
          /\ ~IsExc(outcome.exc)
          /\ ~DeviceAbsent(result)
          /\ SectionsFetched = {Sections[k] : k \in 1..Len(Sections)}
          /\ log[Len(log)].stage = "cpu"

StatusSuccessOrErrorWitness ==
    /\ op = POLL
    /\ HasReturned
    /\ result.status = SUCCESS
    /\ \E i \in 1..Len(faults) : faults[i].kind = "timeout"
    /\ result.device.num_processes = 41
    /\ Len(result.cpu) = 2

\* C9: every top-level operation that has ended, however it ended, has
\* recorded in duration_ms the time from its entry to its end.
DurationRecorded ==
    HasFinished => result.duration_ms = (clock - start) * MsPerSecond

\* whether key is where the code may store the value returned under oid_str:
\* the friendly name of a requested identifier that oid_str equals or has as
\* a prefix, leading dots ignored, or oid_str itself when there is none
StoredUnder(key, oid_str, oids) ==
    LET clean == LStrip(oid_str, ".")
        matching == {i \in 1..Len(oids) :
                       LET wanted == LStrip(oids[i][2], ".")
                       IN /\ Len(wanted) <= Len(clean)
                          /\ SubSeq(clean, 1, Len(wanted)) = wanted}
    IN IF matching = {} THEN key = oid_str
       ELSE \E i \in matching : key = oids[i][1]

----------------------------------------------------------------------------
(* Properties of the instance over several operations *)

\* the transport exists if and only if it was created, and at most once;
\* none exists before the first operation has started
TransportAtMostOnce ==
    /\ creates \in {0, 1}
    /\ (transport = "created") <=> (creates = 1)
    /\ (previous.n = 0 /\ op = "idle") => creates = 0
    /\ log # <<>> => creates = 1

\* an exchange is issued over the transport that exists, which is never
\* dropped or replaced; it is created by an operation on its way to an
\* exchange, not before
TransportKept ==
    /\ log' # log /\ log' # <<>> => transport = "created" /\ creates = 1
    /\ transport = "created" => transport' = "created" /\ creates' = creates
    /\ creates' # creates => op \in Operations /\ pc.phase = "call" /\ inflight = {}

\* C11: construction creates no transport, the first exchange of the
\* instance creates it, and over operations run one after the other, the
\* ones that ended in error included, the transport is created exactly once
\* and every exchange is issued over it.
TransportCreatedOnce == []TransportAtMostOnce /\ [][TransportKept]_vars

TransportCreatedOnceWitness ==
    /\ previous.n = 1
    /\ previous.op = POLL_SYSTEM
    /\ previous.outcome.kind = "raised"
    /\ previous.outcome.exc = TransportDown
    /\ op = POLL
    /\ outcome.kind = "returned"
    /\ result.status = SUCCESS
    /\ creates = 1

----------------------------------------------------------------------------
(* Properties of the serialized result *)

AlwaysKeys == {"host", "status", "timestamp", "duration_ms", "snmp_version"}
OptionalKeys == {"error", "device", "interfaces", "storage", "cpu", "custom"}

\* whether the field of the result is set (error, device) or non-empty
IsSet(res, key) ==
    CASE key = "error" -> res.error # NoneV /\ res.error.s # <<>>
      [] key = "device" -> res.device # NoneV
      [] OTHER -> res[key] # <<>>

\* whether the serialized interface carries the counter exactly when the
\* InterfaceInfo has it, next to all of its other fields
CountersAsPresent(iface, d) ==
    /\ DOMAIN iface \ OptionalCounters \subseteq DOMAIN d
    /\ DOMAIN d \subseteq DOMAIN iface
    /\ \A c \in OptionalCounters : (c \in DOMAIN d) <=> (iface[c] # NoneV)
    /\ \A c \in OptionalCounters \cap DOMAIN d : d[c] = iface[c]

\* C12: the serialized form of every result of an operation, in progress or
\* finished, has host, status, timestamp, duration_ms and snmp_version, has
\* each of error, device, interfaces, storage, cpu and custom exactly when
\* that field is set or non-empty, has no other key, and each serialized
\* interface has a 64-bit counter exactly when the interface has it.
SerializedOmitsAbsent ==
    result # NoneV =>
        LET d == ToDict(result)
        IN /\ AlwaysKeys \subseteq DOMAIN d
           /\ DOMAIN d \subseteq AlwaysKeys \cup OptionalKeys
           /\ \A key \in OptionalKeys : (key \in DOMAIN d) <=> IsSet(result, key)
           /\ "interfaces" \in DOMAIN d =>
                /\ Len(d["interfaces"]) = Len(result.interfaces)
                /\ \A i \in 1..Len(result.interfaces) :
                      CountersAsPresent(result.interfaces[i], d["interfaces"][i])

\* a successful poll of the full agent: no error, every section present, one
\* interface with one of the two counters and two interfaces with neither
SerializedOmitsAbsentWitness ==
    /\ op = POLL /\ outcome.kind = "returned" /\ result.status = SUCCESS
    /\ DOMAIN ToDict(result) = AlwaysKeys \cup (OptionalKeys \ {"error", "custom"})
    /\ Len(result.interfaces) = 3
    /\ result.interfaces[1].hc_in_octets # NoneV
    /\ result.interfaces[1].hc_out_octets = NoneV
    /\ "hc_in_octets" \in DOMAIN ToDict(result)["interfaces"][1]
    /\ "hc_out_octets" \notin DOMAIN ToDict(result)["interfaces"][1]
    /\ "hc_in_octets" \notin DOMAIN ToDict(result)["interfaces"][2]

----------------------------------------------------------------------------
(* Properties of the sub-polls *)

\* every exchange issued so far, answered or in flight, is of the section
IssuesOnly(section) ==
    /\ \A i \in 1..Len(log) : SectionOf(log[i].stage) = section
    /\ \A m \in inflight : SectionOf(m.x.stage) = section

\* the sections of the result other than the given one are as constructed
OthersUntouched(res, section) ==
    /\ \A i \in 1..Len(Sections) : Sections[i] # section => AtDefault(res, Sections[i])
    /\ res.custom = <<>>
    /\ res.timestamp = start

\* C13: a system-only poll issues only the GETs of the system section and
\* leaves interfaces, storage, cpu and custom empty; an interfaces-only poll
\* issues only WALKs of the two interface tables and leaves the device
\* absent and storage, cpu and custom empty; in both, status and error
\* change only together, at the end.
SubPollTouchesOneSection ==
    /\ op = POLL_SYSTEM =>
          /\ IssuesOnly("device")
          /\ \A i \in 1..Len(log) : log[i].kind = "get"
          /\ OthersUntouched(result, "device")
    /\ op = POLL_INTERFACES =>
          /\ IssuesOnly("interfaces")
          /\ \A i \in 1..Len(log) : log[i].kind = "walk"
          /\ OthersUntouched(result, "interfaces")
    /\ op \in {POLL_SYSTEM, POLL_INTERFACES} /\ outcome.kind # "returned" =>
          result.status = SUCCESS /\ result.error = NoneV /\ result.duration_ms = 0

\* an interfaces-only poll of the full agent has walked every column of both
\* tables and returned the three interfaces
SubPollTouchesOneSectionWitness ==
    /\ op = POLL_INTERFACES /\ outcome.kind = "returned" /\ result.status = SUCCESS
    /\ Len(log) = Len(IF_TABLE) + Len(IF_X_TABLE)
    /\ Len(result.interfaces) = 3
    /\ result.device = NoneV
    /\ result.duration_ms > 0

----------------------------------------------------------------------------
(* Properties of the assembled sections *)

\* the records of a section are in strictly ascending order of their index
StrictlyAscending(records) ==
    \A i, j \in 1..Len(records) : i < j => records[i].index < records[j].index

\* the row indexes in the order in which the agent returns a column
ReturnedOrder(column) ==
    [i \in 1..Len(Get(agent.cols, column, <<>>)) |->
        Get(agent.cols, column, <<>>)[i][2].n]

\* C14: in every result, the interfaces, the storage entries and the cpu
\* entries are each in strictly ascending order of row index, so that no
\* index occurs twice in a section.
SectionsSortedByIndex ==
    result # NoneV =>
        /\ StrictlyAscending(result.interfaces)
        /\ StrictlyAscending(result.storage)
        /\ StrictlyAscending(result.cpu)

\* the agent returned storage row 2 before row 1, and the description of row
\* 2 only; the poll returned them as rows 1, 2, next to three interfaces
SectionsSortedByIndexWitness ==
    /\ op = POLL /\ outcome.kind = "returned"
    /\ ReturnedOrder("hrStorageIndex") = <<2, 1>>
    /\ Len(Get(agent.cols, "hrStorageDescr", <<>>)) = 1
    /\ Len(result.storage) = 2
    /\ result.storage[1].index = 1 /\ result.storage[2].index = 2
    /\ Len(result.interfaces) = 3
    /\ Len(result.cpu) = 2

----------------------------------------------------------------------------
(* Properties of two operations in succession *)

\* the operation that has ended repeats the one before it: the same call, no
\* failure of the network in either, and the agent answering the same
\* (a custom GET may be answered in several styles)
RepeatsPrevious ==
    /\ previous.n > 0
    /\ outcome.kind # "none"
    /\ previous.op = op
    /\ previous.request = request
    /\ previous.values = frame.values
    /\ faults = <<>>

\* the content of two results but for timestamp and duration_ms
SameContent(a, b) ==
    /\ a.status = b.status
    /\ a.error = b.error
    /\ \A i \in 1..Len(Sections) : SameSection(a, b, Sections[i])
    /\ a.custom = b.custom

----------------------------------------------------------------------------
(* Properties of _walk_table *)

WalkTableReturned == op = WALK_TABLE /\ outcome.kind = "returned"

\* the columns the failures hit
ColumnsHit == {faults[i].stage : i \in 1..Len(faults)}

\* what the table holds of a column: the row indexes with their values
ColumnOf(table, name) ==
    {<<table[i][1], Get(table[i][2], name, NoneV)>> :
        i \in {j \in 1..Len(table) : Has(table[j][2], name)}}

\* what the first k entries the agent holds of a column pivot to
PivotedPrefix(name, base_oid, k) ==
    ColumnOf(Pivot(<<>>, name, base_oid,
                   WalkResult(OkReply(SubSeq(Get(agent.cols, name, <<>>), 1, k))).val),
             name)

\* C16: a WALK that breaks off with an error indication or an error status
\* does not make _walk_table raise (only an exception of the WALK does); in
\* the table returned, a column that was hit holds what a leading part of its
\* entries pivots to, and every other column holds what all of its entries
\* pivot to.
BrokenWalkKeepsTable ==
    op = WALK_TABLE =>
        /\ outcome.kind = "raised" => \E i \in 1..Len(faults) : faults[i].kind = "exception"
        /\ outcome.kind = "returned" =>
              \A c \in 1..Len(request) :
                 LET name == request[c][1]
                     held == Len(Get(agent.cols, name, <<>>))
                 IN \E k \in 0..held :
                       /\ name \notin ColumnsHit => k = held
                       /\ ColumnOf(frame.table, name) = PivotedPrefix(name, request[c][2], k)

\* the WALK of column a timed out after its first entry: row 2 has both
\* columns, row 7 of column a is missing, row 9 of column b is there
BrokenWalkKeepsTableWitness ==
    /\ WalkTableReturned
    /\ agent = TableAgent(SparseCells, FALSE)
    /\ request = TABLE
    /\ faults = Fault("a", "timeout")
    /\ Keys(frame.table) = {2, 9}
    /\ Keys(Get(frame.table, 2, <<>>)) = {"a", "b"}

\* the row indexes the cells report in a column
Seen(cells, name) == {cells[i].suffix[1] : i \in {j \in 1..Len(cells) : cells[j].column = name}}

\* the table has one row for every index the cells report in a requested
\* column, each row has the requested columns that report its index, with the
\* reported values, and nothing else
Reports(table, cells, column_oids) ==
    /\ Keys(table) = UNION {Seen(cells, name) : name \in Keys(column_oids)}
    /\ Len(table) = Cardinality(Keys(table))
    /\ \A idx \in Keys(table) :
          Keys(Get(table, idx, <<>>)) = {name \in Keys(column_oids) : idx \in Seen(cells, name)}
    /\ \A i \in 1..Len(cells) :
          cells[i].column \in Keys(column_oids) =>
              Get(Get(table, cells[i].suffix[1], <<>>), cells[i].column, NoneV)
                  = IntV(cells[i].value)

\* C17: for every column mapping, in either order of its columns, and every
\* agent that answers the WALKs with well-formed entries, the table returned
\* has exactly one row for every row index reported in a requested column,
\* and each row has exactly the columns that reported its index.
TableHasObservedCells ==
    WalkTableReturned /\ faults = <<>> =>
        \A cells \in CellSets :
            agent = TableAgent(cells, FALSE) => Reports(frame.table, cells, request)

\* column b walked before column a: rows 2, 7 and 9; row 7 from column a
\* alone, row 9 from column b alone
TableHasObservedCellsWitness ==
    /\ WalkTableReturned /\ faults = <<>>
    /\ agent = TableAgent(SparseCells, FALSE)
    /\ request = <<TABLE[2], TABLE[1]>>
    /\ Keys(frame.table) = {2, 7, 9}
    /\ Keys(Get(frame.table, 7, <<>>)) = {"a"}
    /\ Keys(Get(frame.table, 9, <<>>)) = {"b"}
    /\ Keys(Get(frame.table, 2, <<>>)) = {"a", "b"}

\* C18: the entry with suffix 7.1 is pivoted to row 7, and an agent that
\* returns, between the entries of a column, an entry with the suffix x and
\* one with no suffix gets the table of the other entries: the two are
\* dropped, _walk_table does not raise, and no other entry is lost.
OddSuffixDropped ==
    /\ op = WALK_TABLE /\ faults = <<>> => outcome.kind # "raised"
    /\ WalkTableReturned /\ faults = <<>> =>
          /\ \A cells \in CellSets :
                agent = TableAgent(cells, TRUE) => Reports(frame.table, cells, request)
          /\ agent \in {TableAgent(SparseCells, odd) : odd \in BOOLEAN} /\ Has(request, "a") =>
                Get(Get(frame.table, 7, <<>>), "a", NoneV) = IntV(71)

\* column a came as 2, x, no suffix, 7.1: rows 2, 7 and 9, none for the two
OddSuffixDroppedWitness ==
    /\ WalkTableReturned /\ faults = <<>>
    /\ agent = TableAgent(SparseCells, TRUE)
    /\ Len(Get(agent.cols, "a", <<>>)) = 4
    /\ request = TABLE
    /\ Keys(frame.table) = {2, 7, 9}
    /\ Get(Get(frame.table, 7, <<>>), "a", NoneV) = IntV(71)

----------------------------------------------------------------------------
(* Properties of the interface section *)

\* the row indexes the simulated agents use
RowIndexes == 0..4

\* the values the agent holds in a column of a table for a row index
CellsAt(table, name, idx) ==
    LET held == Get(agent.cols, name, <<>>)
    IN {held[i][2] : i \in {j \in 1..Len(held) :
            held[j][1] = Get(table, name, <<>>) \o <<".">> \o Dotted(<<idx>>)}}

\* whether the agent holds the row in some column of the table
InTable(table, idx) == \E c \in 1..Len(table) : CellsAt(table, table[c][1], idx) # {}

\* the integer the agent holds in the cell, 0 without the cell
CounterAt(table, name, idx) ==
    IF CellsAt(table, name, idx) = {} THEN 0
    ELSE (CHOOSE v \in CellsAt(table, name, idx) : TRUE).n

\* the interfaces of a poll in which every WALK of the two tables ran to
\* its end
InterfacesComplete ==
    /\ op \in {POLL, POLL_INTERFACES}
    /\ outcome.kind = "returned"
    /\ result.status = SUCCESS
    /\ faults = <<>>

\* the interface of a row index has the columns of the base row and of the
\* extended row
MergedFrom(iface) ==
    LET idx == iface.index
    IN /\ (iface.hc_in_octets # NoneV) <=> (CellsAt(IF_X_TABLE, "ifHCInOctets", idx) # {})
       /\ (iface.hc_out_octets # NoneV) <=> (CellsAt(IF_X_TABLE, "ifHCOutOctets", idx) # {})
       /\ iface.hc_in_octets # NoneV =>
             iface.hc_in_octets.n = CounterAt(IF_X_TABLE, "ifHCInOctets", idx)
       /\ iface.hc_out_octets # NoneV =>
             iface.hc_out_octets.n = CounterAt(IF_X_TABLE, "ifHCOutOctets", idx)
       /\ iface.in_octets = CounterAt(IF_TABLE, "ifInOctets", idx)
       /\ iface.out_octets = CounterAt(IF_TABLE, "ifOutOctets", idx)
       /\ iface.mtu = CounterAt(IF_TABLE, "ifMtu", idx)
       /\ CellsAt(IF_TABLE, "ifDescr", idx) # {} =>
             iface.description = (CHOOSE v \in CellsAt(IF_TABLE, "ifDescr", idx) : TRUE).s
       /\ CellsAt(IF_X_TABLE, "ifName", idx) # {} =>
             iface.name = (CHOOSE v \in CellsAt(IF_X_TABLE, "ifName", idx) : TRUE).s

\* C19: when both interface tables were walked to their end, the result has
\* an interface for exactly the row indexes that ifTable or ifXTable holds; an
\* interface has hc_in_octets / hc_out_octets exactly when ifXTable holds the
\* counter for its index, with that value; its 32-bit octet counters, its
\* description and its MTU are those of the ifTable row, whatever ifXTable
\* adds to the row.
InterfacesMergedByIndex ==
    InterfacesComplete =>
        /\ \A i \in 1..Len(result.interfaces) : result.interfaces[i].index \in RowIndexes
        /\ \A idx \in RowIndexes :
              (\E i \in 1..Len(result.interfaces) : result.interfaces[i].index = idx)
                  <=> (InTable(IF_TABLE, idx) \/ InTable(IF_X_TABLE, idx))
        /\ \A i \in 1..Len(result.interfaces) : MergedFrom(result.interfaces[i])

\* interface 1 is in both tables and has one 64-bit counter next to its
\* 32-bit counters, interface 2 is in ifTable only, interface 3 in ifXTable only
InterfacesMergedByIndexWitness ==
    /\ InterfacesComplete
    /\ Len(result.interfaces) = 3
    /\ InTable(IF_TABLE, 1) /\ InTable(IF_X_TABLE, 1)
    /\ InTable(IF_TABLE, 2) /\ ~InTable(IF_X_TABLE, 2)
    /\ ~InTable(IF_TABLE, 3) /\ InTable(IF_X_TABLE, 3)
    /\ result.interfaces[3].index = 3
    /\ result.interfaces[1].hc_in_octets = IntV(70000)
    /\ result.interfaces[1].in_octets = 700
    /\ result.interfaces[1].hc_out_octets = NoneV
    /\ result.interfaces[2].hc_in_octets = NoneV

\* the speed the columns of a row stand for, as a multiple of 10^-6 Mbps:
\* the high speed (in Mbps) when the row has that column, else the legacy
\* speed (in bits per second), else 0
SpeedOfColumns(idx) ==
    IF CellsAt(IF_X_TABLE, "ifHighSpeed", idx) # {}
    THEN CounterAt(IF_X_TABLE, "ifHighSpeed", idx) * Million
    ELSE CounterAt(IF_TABLE, "ifSpeed", idx)

\* C20: when both interface tables were walked to their end, speed_mbps of
\* every interface is the value of ifHighSpeed whenever ifXTable holds that
\* column for the row, 0 included; otherwise ifSpeed divided by 1,000,000;
\* 0.0 when the row has neither.
SpeedFromHighSpeedIfPresent ==
    InterfacesComplete =>
        \A i \in 1..Len(result.interfaces) :
            result.interfaces[i].speed_mbps = SpeedOfColumns(result.interfaces[i].index)

----------------------------------------------------------------------------
(* Properties of the storage section *)

\* what a cell counts as: the value reported, 0 when missing
Counted(cell) == IF cell = Missing THEN 0 ELSE cell[1]

\* a percentage p, held as 100 times its value, is used / size * 100 rounded
\* to two decimals: within half a hundredth of it
IsPercentOf(p, used, size) ==
    LET exact == used * Hundred * Hundred
    IN /\ 2 * (p * size - exact) <= size
       /\ 2 * (exact - p * size) <= size

\* the storage entry of row i of an agent with the allocation unit
StorageOfRow(rec, i, alloc) ==
    LET units == Counted(alloc)
        size == Counted(SizeOfRow(i))
        used == Counted(UsedOfRow(i))
    IN /\ rec.index = i
       /\ rec.allocation_units = units
       /\ rec.total_bytes = size * units
       /\ rec.used_bytes = used * units
       /\ rec.total_bytes = 0 => rec.percent_used = 0
       /\ rec.total_bytes # 0 => IsPercentOf(rec.percent_used, used, size)

\* C21: every storage entry has total_bytes = size x allocation units and
\* used_bytes = used x allocation units, a missing column counting as 0;
\* percent_used is 0 when total_bytes is 0 (size 0, allocation units 0, or
\* either missing) and otherwise used_bytes / total_bytes x 100, rounded to
\* two decimals.
StorageArithmetic ==
    op = POLL /\ outcome.kind = "returned" =>
        \A a \in 1..Len(AllocChoices) :
            agent = StorageAgent(AllocChoices[a]) =>
                /\ Len(result.storage) = Cardinality(StorageCases)
                /\ \A i \in StorageCases :
                      StorageOfRow(result.storage[i], i, AllocChoices[a])

\* allocation units 512: the row with size 1000 and used 500 has 512000,
\* 256000 and 50.0; the row with size 0 has 0.0; the row with size 3 and
\* used 2 has 66.67
StorageArithmeticWitness ==
    /\ op = POLL /\ outcome.kind = "returned"
    /\ agent = StorageAgent(Reported(512))
    /\ \E i \in StorageCases :
          /\ SizeOfRow(i) = Reported(1000) /\ UsedOfRow(i) = Reported(500)
          /\ result.storage[i].total_bytes = 512000
          /\ result.storage[i].used_bytes = 256000
          /\ result.storage[i].percent_used = 50 * Hundred
    /\ \E i \in StorageCases :
          /\ SizeOfRow(i) = Reported(0) /\ UsedOfRow(i) = Reported(500)
          /\ result.storage[i].percent_used = 0
    /\ \E i \in StorageCases :
          /\ SizeOfRow(i) = Reported(3) /\ UsedOfRow(i) = Reported(2)
          /\ result.storage[i].percent_used = 6667

----------------------------------------------------------------------------
(* Properties of the status labels *)

AdminLabels == {"up", "down", "testing", "unknown"}
OperLabels == {"up", "down", "testing", "unknown", "dormant", "notPresent", "lowerLayerDown"}

\* the label of an administrative status code
AdminLabelOf(code) ==
    CASE code = 1 -> "up"
      [] code = 2 -> "down"
      [] code = 3 -> "testing"
      [] OTHER -> "unknown"

\* the label of an operational status code
OperLabelOf(code) ==
    CASE code = 1 -> "up"
      [] code = 2 -> "down"
      [] code = 3 -> "testing"
      [] code = 4 -> "unknown"
      [] code = 5 -> "dormant"
      [] code = 6 -> "notPresent"
      [] code = 7 -> "lowerLayerDown"
      [] OTHER -> "unknown"

\* C22: admin_status is up, down, testing for the codes 1, 2, 3 and
\* oper_status is up, down, testing, unknown, dormant, notPresent,
\* lowerLayerDown for the codes 1 to 7; any other integer code and a missing
\* status column give "unknown"; in every result the two are among the fixed
\* labels.
StatusLabelsFixed ==
    result # NoneV =>
        /\ \A i \in 1..Len(result.interfaces) :
              /\ result.interfaces[i].admin_status \in AdminLabels
              /\ result.interfaces[i].oper_status \in OperLabels
        /\ agent = StatusAgent /\ result.interfaces # <<>> =>
              /\ Len(result.interfaces) = Len(StatusChoices)
              /\ \A i \in 1..Len(StatusChoices) :
                    LET code == IF StatusOfRow(i) = Missing THEN 0 ELSE StatusOfRow(i)[1]
                    IN /\ result.interfaces[i].index = i
                       /\ StatusOfRow(i) = Missing =>
                             /\ result.interfaces[i].admin_status = "unknown"
                             /\ result.interfaces[i].oper_status = "unknown"
                       /\ StatusOfRow(i) # Missing =>
                             /\ result.interfaces[i].admin_status = AdminLabelOf(code)
                             /\ result.interfaces[i].oper_status = OperLabelOf(code)

\* the row with code 2 is down / down, the row with code 9 unknown /
\* unknown, the row with code 5 unknown / dormant, the row without the
\* columns unknown / unknown
StatusLabelsFixedWitness ==
    /\ agent = StatusAgent /\ outcome.kind = "returned"
    /\ Len(result.interfaces) = Len(StatusChoices)
    /\ StatusOfRow(1) = Missing /\ result.interfaces[1].oper_status = "unknown"
    /\ \E i \in 1..Len(StatusChoices) :
          /\ StatusOfRow(i) = Reported(2)
          /\ result.interfaces[i].admin_status = "down"
          /\ result.interfaces[i].oper_status = "down"
    /\ \E i \in 1..Len(StatusChoices) :
          /\ StatusOfRow(i) = Reported(9)
          /\ result.interfaces[i].oper_status = "unknown"
    /\ \E i \in 1..Len(StatusChoices) :
          /\ StatusOfRow(i) = Reported(5)
          /\ result.interfaces[i].admin_status = "unknown"
          /\ result.interfaces[i].oper_status = "dormant"

----------------------------------------------------------------------------
(* Properties of the system section *)

\* the values the response binds to the identifier of a name of the group
BoundTo(binds, name) ==
    {binds[i][2] : i \in {j \in 1..Len(binds) : binds[j][1] = Get(SYSTEM, name, <<>>)}}

\* the text, resp. the number, the response holds for the name; empty,
\* resp. 0, when the identifier is missing from it
TextOf(binds, name) ==
    IF BoundTo(binds, name) = {} THEN <<>>
    ELSE (CHOOSE v \in BoundTo(binds, name) : TRUE).s

NumberOf(binds, name) ==
    IF BoundTo(binds, name) = {} THEN 0
    ELSE (CHOOSE v \in BoundTo(binds, name) : TRUE).n

\* the device has, field by field, what the response holds for the field's
\* identifier
DeviceOf(device, binds) ==
    /\ device.sys_descr = TextOf(binds, "sysDescr")
    /\ device.sys_object_id = TextOf(binds, "sysObjectID")
    /\ device.sys_uptime_ticks = NumberOf(binds, "sysUpTime")
    /\ device.sys_uptime_human = FormatUptime(NumberOf(binds, "sysUpTime"))
    /\ device.sys_contact = TextOf(binds, "sysContact")
    /\ device.sys_name = TextOf(binds, "sysName")
    /\ device.sys_location = TextOf(binds, "sysLocation")
    /\ device.sys_services = NumberOf(binds, "sysServices")

\* C23: whatever the order of the bindings in the response to the system
\* GET, and whichever identifiers are missing from it, poll() and
\* poll_system() return with success, and every field of the device holds
\* the value bound to that field's identifier, or its empty / zero default
\* when the identifier is missing.
DeviceByIdentifier ==
    /\ op \in {POLL, POLL_SYSTEM} /\ agent \in SystemAgents =>
          outcome.kind # "raised"
    /\ op \in {POLL, POLL_SYSTEM} /\ agent \in SystemAgents /\ outcome.kind = "returned" =>
          /\ result.status = SUCCESS
          /\ result.device # NoneV
          /\ DeviceOf(result.device, agent.sys.binds)

\* the response came as sysServices, sysName, sysUpTime (no sysDescr, none
\* of the other three): name, ticks and services are in their fields, the
\* description is empty
DeviceByIdentifierWitness ==
    /\ op = POLL_SYSTEM /\ outcome.kind = "returned"
    /\ agent.sys.binds = <<SysFull.binds[7], SysFull.binds[5], SysFull.binds[3]>>
    /\ result.device.sys_name = <<"g", "w">>
    /\ result.device.sys_uptime_ticks = 8646100
    /\ result.device.sys_services = 72
    /\ result.device.sys_descr = <<>>
    /\ result.device.sys_contact = <<>>

----------------------------------------------------------------------------
(* Properties of two concurrent operations *)

\* C24: at most one transport is ever created for the instance, also when a
\* second operation is started while the first one is still running and
\* before the transport exists, and two tasks that both came back from
\* _get_transport hold the same transport.
OneTransportWhenConcurrent ==
    /\ creates <= 1
    /\ getting.main.phase = "got" /\ getting.peer.phase = "got" =>
          getting.main.transport = getting.peer.transport

----------------------------------------------------------------------------
(* Properties of the custom poll with related identifiers *)

\* the requested identifiers differ from one another
DistinctIdentifiers(oids) ==
    \A i, j \in 1..Len(oids) : i # j => LStrip(oids[i][2], ".") # LStrip(oids[j][2], ".")

\* C25: in a successful custom poll with pairwise distinct requested
\* identifiers, the value of every returned identifier that equals a
\* requested identifier is in custom under the friendly name of that
\* identifier, whatever the other requested identifiers and their order.
AnsweredUnderOwnName ==
    (/\ op = POLL_CUSTOM
     /\ HasReturned
     /\ result.status = SUCCESS
     /\ DistinctIdentifiers(request)) =>
        \A i \in 1..Len(frame.values) : \A j \in 1..Len(request) :
            LStrip(frame.values[i][1], ".") = LStrip(request[j][2], ".") =>
                /\ Has(result.custom, request[j][1])
                /\ Get(result.custom, request[j][1], NoneV) = frame.values[i][2]

----------------------------------------------------------------------------
(* Properties of _walk_table with identifiers outside the column *)

\* the identifier lies under the base identifier: base, a dot, a suffix
Under(full_oid, base_oid) ==
    /\ Len(full_oid) > Len(base_oid) + 1
    /\ StartsWith(full_oid, base_oid \o <<".">>)

\* the first component of what follows the base identifier and the dot
RowUnder(full_oid, base_oid) == ParseInt(FirstField(Drop(full_oid, Len(base_oid) + 1), "."))

\* C26: in the table _walk_table returns, every field of every row comes
\* from an entry of that column whose identifier lies under the column's
\* base identifier (base, a dot, a suffix starting with the row index), with
\* that entry's value; an entry whose identifier lies outside the column's
\* subtree creates no row and sets no field.
FieldsFromOwnSubtree ==
    WalkTableReturned =>
        \A c \in 1..Len(request) : \A r \in 1..Len(frame.table) :
            LET name == request[c][1]
                base_oid == request[c][2]
                held == Get(agent.cols, name, <<>>)
            IN Has(frame.table[r][2], name) =>
                  \E i \in 1..Len(held) :
                      /\ Under(held[i][1], base_oid)
                      /\ RowUnder(held[i][1], base_oid).ok
                      /\ RowUnder(held[i][1], base_oid).n = frame.table[r][1]
                      /\ CastValue(held[i][2]) = Get(frame.table[r][2], name, NoneV)

=============================================================================
